---- MODULE Spec2Model ----
(***************************************************************************)
(* Model of the authentication engine of cardea's oracle service           *)
(* (src/oracle/src/auth.py): registration with email verification, login   *)
(* with lockout, forgot/reset password, over the users table created by    *)
(* the migration 20260108_002_users_and_multitenancy.py.                   *)
(*                                                                         *)
(* Every handler opens its own database session (async with get_db()),     *)
(* runs a SELECT, decides on the row it read, and then runs an UPDATE or   *)
(* INSERT followed by db.commit().  Handlers of different requests         *)
(* interleave at every await, so a handler is modelled as a SELECT step    *)
(* that stores the row it read, followed by a step that decides on that    *)
(* stored row and commits.  Time is counted in minutes.                    *)
(***************************************************************************)
EXTENDS Integers, Sequences, FiniteSets, TLC

\* ---------------------------------------------------------------- bounds
MaxTicks == 1      \* clock advances in one behaviour
MaxRand == 3       \* values drawn from the random source (tokens, salts)
MaxAlerts == 52    \* alert requests counted under one throttle key
MaxRepeats == 3    \* the same, where requests repeat an alert

\* ------------------------------------------------------ program constants
LOCK_THRESHOLD == 5              \* if failed_attempts >= 5
LOCK_MINUTES == 15               \* timedelta(minutes=15)
VERIFY_HOURS == 24               \* timedelta(hours=24)
RESET_HOURS == 1                 \* timedelta(hours=1)
ACCESS_TOKEN_EXPIRE_MINUTES == 30 \* settings.ACCESS_TOKEN_EXPIRE_MINUTES
MINUTES_PER_HOUR == 60
SECONDS_PER_MINUTE == 60
DEDUPE_WINDOW_SECONDS == 60      \* ignore identical alerts within 1 minute
GLOBAL_MINUTE_LIMIT == 50        \* max 50 alerts per minute
THROTTLE_TTL == 60               \* pipe.expire(minute_key, 60)

\* ------------------------------------------------------------ value sets
NULL == 0 - 1                    \* SQL NULL of a timestamp column
NoToken == 0                     \* SQL NULL of a token column
NoHash == [pw |-> "", salt |-> 0] \* SQL NULL of hashed_password
NoName == ""                     \* SQL NULL of full_name
SECRET_KEY == "key"              \* settings.SECRET_KEY

Slots == {1, 2}                  \* request handlers that can be in flight together
Email1 == [local |-> <<"a">>, domain |-> "x"]
Email2 == [local |-> <<"a">>, domain |-> "y"]
Emails == {Email1, Email2}
NoEmail == [local |-> <<>>, domain |-> ""]
Passwords == {"pw1", "pw2"}
Names == {NoName, "Al"}
\* how far the clock moves in one step: to inside a window of the program,
\* to exactly its end, or past it
LockSteps == {1, LOCK_MINUTES}
ResetSteps == {RESET_HOURS * MINUTES_PER_HOUR, RESET_HOURS * MINUTES_PER_HOUR + 1}
VerifySteps == {VERIFY_HOURS * MINUTES_PER_HOUR, VERIFY_HOURS * MINUTES_PER_HOUR + 1}

VARIABLES
    users,    \* the users table: a sequence of rows, id = position
    now,      \* datetime.now(timezone.utc), in minutes
    ticks,    \* clock advances so far
    rand,     \* values drawn so far from secrets / the bcrypt salt source
    accepted, \* history: the tokens verify_email or reset_password has accepted
    issued,   \* history: the tokens stored so far, each with its kind
    guard,    \* the alert safeguards: their Redis keys, the clock in seconds
              \* and the alert requests in flight
    reqs,     \* per slot: the handler in flight, with the row it has read
    last      \* the handler that returned in the step just taken, if one
              \* did: its input, the row it read, the row before and after
              \* its final step, and its response

vars == <<users, now, ticks, rand, accepted, issued, guard, reqs, last>>

\* ------------------------------------------------------------- the table
\* sa.Column(...) of op.create_table('users', ...)
NoRow ==
    [id |-> 0, username |-> <<>>, email |-> NoEmail, hashed_password |-> NoHash,
     full_name |-> NoName, email_verified |-> FALSE,
     email_verification_token |-> NoToken, email_verification_expires |-> NULL,
     password_reset_token |-> NoToken, password_reset_expires |-> NULL,
     is_active |-> TRUE, is_locked |-> FALSE, failed_login_attempts |-> 0,
     locked_until |-> NULL, roles |-> <<"user">>,
     oauth_provider |-> "", oauth_provider_id |-> "",
     updated_at |-> NULL, last_login |-> NULL, last_password_change |-> NULL]

\* SELECT ... FROM users WHERE email = :email
FindByEmail(tbl, email) ==
    IF \E i \in 1..Len(tbl) : tbl[i].email = email
    THEN tbl[CHOOSE i \in 1..Len(tbl) : tbl[i].email = email]
    ELSE NoRow

\* SELECT id FROM users WHERE username = :username
UsernameTaken(tbl, username) ==
    \E i \in 1..Len(tbl) : tbl[i].username = username

\* SELECT ... WHERE email_verification_token = :token AND email_verified = false
FindByVerificationToken(tbl, token) ==
    IF \E i \in 1..Len(tbl) : /\ token # NoToken
                              /\ tbl[i].email_verification_token = token
                              /\ ~tbl[i].email_verified
    THEN tbl[CHOOSE i \in 1..Len(tbl) : /\ tbl[i].email_verification_token = token
                                        /\ ~tbl[i].email_verified]
    ELSE NoRow

\* SELECT id, password_reset_expires FROM users WHERE password_reset_token = :token
FindByResetToken(tbl, token) ==
    IF \E i \in 1..Len(tbl) : token # NoToken /\ tbl[i].password_reset_token = token
    THEN tbl[CHOOSE i \in 1..Len(tbl) : tbl[i].password_reset_token = token]
    ELSE NoRow

\* the row with this id as it is committed now (NoRow for id 0)
RowOf(tbl, id) == IF id \in 1..Len(tbl) THEN tbl[id] ELSE NoRow

\* ------------------------------------------------------- password hasher
\* pwd_context.hash: a digest of the password under a fresh salt
get_password_hash(password, salt) == [pw |-> password, salt |-> salt]

\* pwd_context.verify
verify_password(plain_password, hashed_password) ==
    hashed_password.pw = plain_password

\* ------------------------------------------------------------ token codec
NoBearer == [sub |-> <<>>, scopes |-> <<>>, exp |-> NULL, sig |-> ""]

\* Optional[timedelta]: <<>> is None, <<d>> a delta of d minutes
NoDelta == <<>>

\* `if expires_delta:` -- None and timedelta(0) are both falsy
DeltaIsTruthy(expires_delta) ==
    expires_delta # NoDelta /\ expires_delta[1] # 0

\* expire = now + expires_delta, else now + ACCESS_TOKEN_EXPIRE_MINUTES
ExpireAt(expires_delta, t) ==
    IF DeltaIsTruthy(expires_delta)
    THEN t + expires_delta[1]
    ELSE t + ACCESS_TOKEN_EXPIRE_MINUTES

\* to_encode.update({"exp": expire}); jwt.encode(to_encode, SECRET_KEY):
\* the claims of `data`, exp, and a signature under the key
create_access_token(data, expires_delta, t) ==
    [exp |-> ExpireAt(expires_delta, t), sig |-> SECRET_KEY] @@ data

\* jwt.decode raises JWTError: not a JWT, signature made with another key,
\* or an exp claim that lies in the past
DecodeRaises_IgnoresExpiry(token, t) ==
    \/ "sig" \notin DOMAIN token
    \/ token.sig # SECRET_KEY

DecodeRaises(token, t) ==
    \/ "sig" \notin DOMAIN token
    \/ token.sig # SECRET_KEY
    \/ "exp" \in DOMAIN token /\ token.exp < t

\* credentials_exception
CredentialsException ==
    [ok |-> FALSE, status |-> 401, detail |-> "Could not validate credentials",
     username |-> <<>>, scopes |-> <<>>]

TokenData_DropsScopes(token) ==
    [ok |-> TRUE, status |-> 200, detail |-> "", username |-> token.sub,
     scopes |-> <<>>]

\* TokenData(username=payload.get("sub"), scopes=payload.get("scopes", []))
TokenData(token) ==
    [ok |-> TRUE, status |-> 200, detail |-> "", username |-> token.sub,
     scopes |-> IF "scopes" \in DOMAIN token THEN token.scopes ELSE <<>>]

verify_token(token, t) ==
    IF DecodeRaises(token, t) THEN CredentialsException
    ELSE IF "sub" \notin DOMAIN token THEN CredentialsException
    ELSE TokenData(token)

\* verify_token returns instead of raising
verify_token_ok(token, t) == verify_token(token, t).ok

\* `user_data.roles or ["user"]`
RolesOrDefault(roles) == IF roles = <<>> THEN <<"user">> ELSE roles

\* ------------------------------------------------------- requests, results
Idle ==
    [op |-> "idle", email |-> NoEmail, password |-> "", full_name |-> NoName,
     token |-> NoToken, snap |-> NoRow, username |-> <<>>, stage |-> "",
     hashed |-> NoHash, fresh |-> NoToken, reused |-> FALSE]

NoMail == [kind |-> "", to |-> NoEmail, token |-> NoToken, delivered |-> FALSE]

NoLast ==
    [op |-> "none", email |-> NoEmail, password |-> "", token |-> NoToken,
     snap |-> NoRow, before |-> NoRow, after |-> NoRow, at |-> 0,
     status |-> 0, detail |-> "", bearer |-> NoBearer, mail |-> NoMail,
     rows |-> 0, reused |-> FALSE, again |-> FALSE, failed |-> FALSE,
     arg |-> <<>>, ret |-> <<>>]

\* history: a token value and the kind of link it was generated for
Issued(kind, token) == [kind |-> kind, token |-> token]

\* what a finished handler leaves in `last`
Finished(rq, before, after, status, detail, bearer, mail) ==
    [op |-> rq.op, email |-> rq.email, password |-> rq.password,
     token |-> rq.token, snap |-> rq.snap, before |-> before, after |-> after,
     at |-> now, status |-> status, detail |-> detail, bearer |-> bearer,
     mail |-> mail, rows |-> Len(users),
     \* history: the token had been accepted before this handler's SELECT,
     \* and before its final step
     reused |-> rq.reused, again |-> rq.token \in accepted,
     \* the handler ended in its `except Exception` branch
     failed |-> FALSE,
     arg |-> <<>>, ret |-> <<>>]

\* what a call of a function leaves in `last`: its arguments and its result
Called(op, arg, ret) ==
    [NoLast EXCEPT !.op = op, !.at = now, !.rows = Len(users),
                   !.arg = arg, !.ret = ret]

\* ------------------------------------------------- the alert safeguards
\* an alert request that is not in flight
NoAlert ==
    [stage |-> "idle", key |-> 0, label |-> 0, is_duplicate |-> FALSE,
     current_minute_count |-> 0]

\* Redis without keys, the clock at the start of an hour, no request in
\* flight
NoGuard ==
    [clock |-> 0, throttle |-> {}, dedupe |-> {},
     flight |-> [r \in Slots |-> NoAlert]]

\* ------------------------------------------------------------------ Init
\* a verified password account that exists before the first request
SeedRow(active) ==
    [NoRow EXCEPT !.id = 1, !.username = <<"a">>, !.email = Email1,
                  !.hashed_password = get_password_hash("pw1", 0),
                  !.email_verified = TRUE, !.is_active = active,
                  !.updated_at = 0]

Init ==
    /\ users \in {<<>>} \cup {<<SeedRow(a)>> : a \in BOOLEAN}
    /\ now = 0
    /\ ticks = 0
    /\ rand = 0
    /\ accepted = {}
    /\ issued = {}
    /\ guard = NoGuard
    /\ reqs = [r \in Slots |-> Idle]
    /\ last = NoLast

\* the clock moves by d minutes
Tick(d) ==
    /\ ticks < MaxTicks
    /\ now' = now + d
    /\ ticks' = ticks + 1
    /\ last' = NoLast
    /\ UNCHANGED <<users, rand, accepted, reqs, issued, guard>>

\* ---------------------------------------------------- shared action parts
\* the table with row `id` replaced by `row`
Put(tbl, id, row) == [tbl EXCEPT ![id] = row]

\* a new request takes the first free slot (the slots are interchangeable)
FreeSlot(r) ==
    /\ reqs[r].op = "idle"
    /\ \A q \in Slots : q < r => reqs[q].op # "idle"

\* the handler of slot r returns: its slot is free again
Done(r, entry) ==
    /\ reqs' = [reqs EXCEPT ![r] = Idle]
    /\ last' = entry

\* ------------------------------------------------------ email dispatcher
\* mutant: the generator returns the same value every time
generate_verification_token_Repeats(drawn) == 1

\* secrets.token_urlsafe(32): a value that was not drawn before
generate_verification_token(drawn) == drawn + 1

\* send_email: True, or False after any exception of the provider
send_email(provider_ok) == provider_ok

\* `await send_verification_email(...)`: the handler drops the returned
\* flag and goes on to its return statement
AfterSend_FailsUndelivered(response, delivered) ==
    IF delivered THEN response ELSE <<500, "Email could not be sent">>

AfterSend(response, delivered) == response

\* ------------------------------------------------------ login_with_email
\* mutant: the comparison of the lock window turned around
StillLocked_Inverted(snap, t) == snap.locked_until # NULL /\ snap.locked_until < t

\* `if user_data.locked_until and user_data.locked_until > datetime.now()`
StillLocked(snap, t) == snap.locked_until # NULL /\ snap.locked_until > t

\* `failed_attempts = (user_data.failed_login_attempts or 0) + 1`
FailedAttempts(snap) == snap.failed_login_attempts + 1

\* mutant: the first failure already locks the account
ReachesThreshold_Early(attempts) == attempts >= 1

\* mutant: the account locks one failure late
ReachesThreshold_Late(attempts) == attempts > LOCK_THRESHOLD

\* `if failed_attempts >= 5`
ReachesThreshold(attempts) == attempts >= LOCK_THRESHOLD

\* `not user_data.hashed_password or not verify_password(...)`
PasswordRejected(snap, password) ==
    snap.hashed_password = NoHash \/ ~verify_password(password, snap.hashed_password)

\* mutant: the unlock clears the counter and leaves the lock flag set
UnlockRow_KeepsFlag(row) == [row EXCEPT !.failed_login_attempts = 0]

\* UPDATE users SET is_locked = false, failed_login_attempts = 0
UnlockRow(row) == [row EXCEPT !.is_locked = FALSE, !.failed_login_attempts = 0]

\* UPDATE users SET failed_login_attempts, is_locked = true, locked_until
LockRow(row, attempts, t) ==
    [row EXCEPT !.failed_login_attempts = attempts, !.is_locked = TRUE,
                !.locked_until = t + LOCK_MINUTES]

\* UPDATE users SET failed_login_attempts = :attempts
CountRow(row, attempts) == [row EXCEPT !.failed_login_attempts = attempts]

\* UPDATE users SET failed_login_attempts = 0, last_login = :now
LoggedInRow(row, t) == [row EXCEPT !.failed_login_attempts = 0, !.last_login = t]

\* mutant: the active check is made before the lock check
LoginEarlyExit_DisabledFirst(snap, t) ==
    IF snap = NoRow THEN <<401, "Invalid email or password">>
    ELSE IF ~snap.email_verified THEN <<403, "Please verify your email before logging in">>
    ELSE IF ~snap.is_active THEN <<403, "Account is disabled">>
    ELSE IF snap.is_locked /\ StillLocked(snap, t)
         THEN <<403, "Account is temporarily locked. Please try again later.">>
    ELSE <<0, "">>

\* the checks of login_with_email that end the handler before any UPDATE
LoginEarlyExit(snap, t) ==
    IF snap = NoRow THEN <<401, "Invalid email or password">>
    ELSE IF ~snap.email_verified THEN <<403, "Please verify your email before logging in">>
    ELSE IF snap.is_locked /\ StillLocked(snap, t) THEN <<403, "Account is temporarily locked. Please try again later.">>
    ELSE IF ~snap.is_locked /\ ~snap.is_active THEN <<403, "Account is disabled">>
    ELSE <<0, "">>

\* the SELECT by email and the checks made on the row read
LoginSelect(r, email, password) ==
    /\ FreeSlot(r)
    /\ LET snap == FindByEmail(users, email)
           rq == [Idle EXCEPT !.op = "login", !.email = email,
                              !.password = password, !.snap = snap]
           exit == LoginEarlyExit(snap, now)
           cur == RowOf(users, snap.id)
       IN IF exit[1] # 0
          THEN Done(r, Finished(rq, cur, cur, exit[1], exit[2], NoBearer, NoMail))
          ELSE reqs' = [reqs EXCEPT ![r] = rq] /\ last' = NoLast
    /\ UNCHANGED <<users, now, ticks, rand, accepted, issued, guard>>

\* the rest of login_with_email: the unlock of an expired lock, the active
\* check, the password check, the UPDATE of the counters and db.commit()
LoginFinish(r) ==
    /\ reqs[r].op = "login"
    /\ LET rq == reqs[r]
           snap == rq.snap
           cur == users[snap.id]
           base == IF snap.is_locked THEN UnlockRow(cur) ELSE cur
           attempts == FailedAttempts(snap)
       IN IF ~snap.is_active
          THEN \* raised with the unlock not committed: the session's exit
               \* (database.get_db) either commits or rolls it back
               \E commit \in BOOLEAN :
                  LET after == IF commit THEN base ELSE cur
                  IN /\ users' = Put(users, snap.id, after)
                     /\ Done(r, Finished(rq, cur, after, 403, "Account is disabled",
                                         NoBearer, NoMail))
          ELSE IF PasswordRejected(snap, rq.password)
          THEN IF ReachesThreshold(attempts)
               THEN LET after == LockRow(base, attempts, now)
                    IN /\ users' = Put(users, snap.id, after)
                       /\ Done(r, Finished(rq, cur, after, 403, "Too many failed attempts. Account locked for 15 minutes.",
                                           NoBearer, NoMail))
               ELSE LET after == CountRow(base, attempts)
                    IN /\ users' = Put(users, snap.id, after)
                       /\ Done(r, Finished(rq, cur, after, 401, "Invalid email or password",
                                           NoBearer, NoMail))
          ELSE LET after == LoggedInRow(base, now)
               IN /\ users' = Put(users, snap.id, after)
                  /\ Done(r, Finished(rq, cur, after, 200, "",
                        create_access_token([sub |-> snap.username,
                                             scopes |-> RolesOrDefault(snap.roles)],
                                            NoDelta, now),
                        NoMail))
    /\ UNCHANGED <<now, ticks, rand, accepted, issued, guard>>


\* ------------------------------------- authenticate_user (/api/auth/login)
\* SELECT * FROM users WHERE username = :username AND is_active = true
FindActiveByUsername(tbl, username) ==
    IF \E i \in 1..Len(tbl) : tbl[i].username = username /\ tbl[i].is_active
    THEN tbl[CHOOSE i \in 1..Len(tbl) : tbl[i].username = username /\ tbl[i].is_active]
    ELSE NoRow

\* UPDATE users SET last_login = :last_login WHERE username = :username
AuthenticatedRow(row, t) == [row EXCEPT !.last_login = t]

\* the SELECT by username and the password check; authenticate_user
\* returns None and the route answers 401
AuthenticateSelect(r, username, password) ==
    /\ FreeSlot(r)
    /\ LET snap == FindActiveByUsername(users, username)
           rq == [Idle EXCEPT !.op = "authenticate", !.username = username,
                              !.password = password, !.snap = snap]
           cur == RowOf(users, snap.id)
       IN IF snap = NoRow \/ PasswordRejected(snap, password)
          THEN Done(r, Finished(rq, cur, cur, 401, "Incorrect username or password",
                                NoBearer, NoMail))
          ELSE reqs' = [reqs EXCEPT ![r] = rq] /\ last' = NoLast
    /\ UNCHANGED <<users, now, ticks, rand, accepted, issued, guard>>

\* the UPDATE of last_login, db.commit() and the route's bearer token
AuthenticateFinish(r) ==
    /\ reqs[r].op = "authenticate"
    /\ LET rq == reqs[r]
           snap == rq.snap
           cur == users[snap.id]
           after == AuthenticatedRow(cur, now)
       IN /\ users' = Put(users, snap.id, after)
          /\ Done(r, Finished(rq, cur, after, 200, "",
                              create_access_token([sub |-> snap.username,
                                                   scopes |-> snap.roles],
                                                  NoDelta, now),
                              NoMail))
    /\ UNCHANGED <<now, ticks, rand, accepted, issued, guard>>

\* --------------------------------------------------------- register_user
Digit == <<"0", "1", "2", "3", "4", "5", "6", "7", "8", "9">>

\* str(counter) of f"{base_username}{counter}"
RECURSIVE Decimal(_)
Decimal(n) ==
    IF n < 10 THEN <<Digit[n + 1]>> ELSE Decimal(n \div 10) \o <<Digit[(n % 10) + 1]>>

\* the `while True` loop: the email prefix, then prefix + 1, prefix + 2, ...
RECURSIVE UniqueUsername(_, _, _)
UniqueUsername(tbl, base, counter) ==
    LET username == IF counter = 0 THEN base ELSE base \o Decimal(counter)
    IN IF UsernameTaken(tbl, username)
       THEN UniqueUsername(tbl, base, counter + 1)
       ELSE username

\* mutant: the table has no unique indexes
InsertRefused_Never(tbl, row) == FALSE

\* the unique indexes on username and on email refuse the INSERT
InsertRefused(tbl, row) ==
    \E i \in 1..Len(tbl) : tbl[i].username = row.username \/ tbl[i].email = row.email

\* INSERT INTO users (...) VALUES (..., false, :token, :expires, true, '["user"]', ...)
RegisteredRow(id, username, email, hashed, full_name, token, t) ==
    [NoRow EXCEPT !.id = id, !.username = username, !.email = email,
                  !.hashed_password = hashed, !.full_name = full_name,
                  !.email_verified = FALSE,
                  !.email_verification_token = token,
                  !.email_verification_expires = t + VERIFY_HOURS * MINUTES_PER_HOUR,
                  !.is_active = TRUE, !.roles = <<"user">>, !.updated_at = t]

\* mutant: the resend leaves the stored token and its expiry in place
ResentRow_KeepsToken(row, token, t) == [row EXCEPT !.updated_at = t]

\* mutant: the resend also stores the hash of the password of the retry
ResentRow_StoresRetryPassword(row, token, t) ==
    [row EXCEPT !.email_verification_token = token,
                !.email_verification_expires = t + VERIFY_HOURS * MINUTES_PER_HOUR,
                !.updated_at = t,
                !.hashed_password = get_password_hash("pw2", token)]

\* UPDATE users SET email_verification_token, email_verification_expires, updated_at
ResentRow(row, token, t) ==
    [row EXCEPT !.email_verification_token = token,
                !.email_verification_expires = t + VERIFY_HOURS * MINUTES_PER_HOUR,
                !.updated_at = t]

\* MessageResponse of the branch that found an unverified account
RegisterResentMessage == "Verification email sent. Please check your inbox."

\* MessageResponse of the branch that created the account
RegisterCreatedMessage ==
    "Account created! Please check your email to verify your account."

\* mutant: a verified account is treated like an unverified one
AlreadyVerified_Never(existing_user) == FALSE

\* `if existing_user: if existing_user.email_verified`
AlreadyVerified(existing_user) ==
    existing_user # NoRow /\ existing_user.email_verified

\* the SELECT by email; an already verified account ends the handler
RegisterSelect(r, email, password, full_name) ==
    /\ FreeSlot(r)
    /\ LET snap == FindByEmail(users, email)
           rq == [Idle EXCEPT !.op = "register", !.email = email,
                              !.password = password, !.full_name = full_name,
                              !.snap = snap,
                              !.stage = IF snap = NoRow THEN "create" ELSE "resend"]
       IN IF AlreadyVerified(snap)
          THEN Done(r, Finished(rq, snap, snap, 400,
                                "An account with this email already exists",
                                NoBearer, NoMail))
          ELSE reqs' = [reqs EXCEPT ![r] = rq] /\ last' = NoLast
    /\ UNCHANGED <<users, now, ticks, rand, accepted, issued, guard>>

\* the unverified branch: a new token is stored, committed and mailed
RegisterResend(r) ==
    /\ reqs[r].op = "register" /\ reqs[r].stage = "resend"
    /\ rand < MaxRand
    /\ rand' = rand + 1
    /\ LET rq == reqs[r]
           cur == users[rq.snap.id]
           after == ResentRow(cur, generate_verification_token(rand), now)
       IN /\ users' = Put(users, rq.snap.id, after)
          /\ issued' = issued \cup {Issued("verification", generate_verification_token(rand))}
          /\ \E provider_ok \in BOOLEAN :
                LET delivered == send_email(provider_ok)
                    response == AfterSend(<<200, RegisterResentMessage>>, delivered)
                IN Done(r, Finished(rq, cur, after, response[1], response[2],
                       NoBearer,
                       [kind |-> "verification", to |-> rq.email,
                        token |-> generate_verification_token(rand),
                        delivered |-> delivered]))
    /\ UNCHANGED <<now, ticks, accepted, guard>>

\* the new-account branch up to the INSERT: the hash, the token and the
\* username loop's SELECTs
RegisterPrepare(r) ==
    /\ reqs[r].op = "register" /\ reqs[r].stage = "create"
    /\ rand < MaxRand
    /\ rand' = rand + 1
    /\ reqs' = [reqs EXCEPT ![r].stage = "insert",
                            ![r].hashed = get_password_hash(reqs[r].password, rand + 1),
                            ![r].fresh = generate_verification_token(rand),
                            ![r].username = UniqueUsername(users, reqs[r].email.local, 0)]
    /\ last' = NoLast
    /\ UNCHANGED <<users, now, ticks, accepted, issued, guard>>

\* the INSERT, db.commit() and the verification email
RegisterInsert(r) ==
    /\ reqs[r].op = "register" /\ reqs[r].stage = "insert"
    /\ LET rq == reqs[r]
           row == RegisteredRow(Len(users) + 1, rq.username, rq.email, rq.hashed,
                                rq.full_name, rq.fresh, now)
       IN IF InsertRefused(users, row)
          THEN /\ users' = users
               /\ issued' = issued
               /\ Done(r, Finished(rq, NoRow, NoRow, 500,
                                   "Registration failed. Please try again.",
                                   NoBearer, NoMail))
          ELSE /\ users' = Append(users, row)
               /\ issued' = issued \cup {Issued("verification", rq.fresh)}
               /\ \E provider_ok \in BOOLEAN :
                     LET delivered == send_email(provider_ok)
                         response == AfterSend(<<200, RegisterCreatedMessage>>,
                                               delivered)
                     IN Done(r, Finished(rq, NoRow, row, response[1], response[2],
                       NoBearer,
                       [kind |-> "verification", to |-> rq.email,
                        token |-> rq.fresh, delivered |-> delivered]))
    /\ UNCHANGED <<now, ticks, rand, accepted, guard>>

\* ---------------------------------------------------------- verify_email
\* mutant: a link is refused already at the minute it expires
VerificationExpired_AtExpiry(snap, t) == snap.email_verification_expires <= t

\* mutant: the expiry of the link is not looked at
VerificationExpired_Never(snap, t) == FALSE

\* `if user_data.email_verification_expires < datetime.now(timezone.utc)`
VerificationExpired(snap, t) == snap.email_verification_expires < t

\* UPDATE users SET email_verified = true, email_verification_token = NULL, ...
VerifiedRow(row, t) ==
    [row EXCEPT !.email_verified = TRUE, !.email_verification_token = NoToken,
                !.email_verification_expires = NULL, !.updated_at = t]

\* the SELECT of the unverified row holding the token
VerifySelect(r, token) ==
    /\ FreeSlot(r)
    /\ LET snap == FindByVerificationToken(users, token)
           rq == [Idle EXCEPT !.op = "verify", !.token = token, !.snap = snap,
                              !.reused = token \in accepted]
       IN IF snap = NoRow
          THEN Done(r, Finished(rq, NoRow, NoRow, 400,
                                "Invalid or expired verification link",
                                NoBearer, NoMail))
          ELSE reqs' = [reqs EXCEPT ![r] = rq] /\ last' = NoLast
    /\ UNCHANGED <<users, now, ticks, rand, accepted, issued, guard>>

\* the expiry check, the UPDATE, db.commit() and the bearer token
VerifyFinish(r) ==
    /\ reqs[r].op = "verify"
    /\ LET rq == reqs[r]
           snap == rq.snap
           cur == users[snap.id]
       IN IF VerificationExpired(snap, now)
          THEN /\ users' = users
               /\ accepted' = accepted
               /\ Done(r, Finished(rq, cur, cur, 400,
                                   "Verification link has expired. Please request a new one.", NoBearer, NoMail))
          ELSE LET after == VerifiedRow(cur, now)
               IN /\ users' = Put(users, snap.id, after)
                  /\ accepted' = accepted \cup {rq.token}
                  /\ Done(r, Finished(rq, cur, after, 200, "",
                        create_access_token([sub |-> snap.username,
                                             scopes |-> RolesOrDefault(snap.roles)],
                                            NoDelta, now),
                        NoMail))
    /\ UNCHANGED <<now, ticks, rand, issued, guard>>

\* ------------------------------------------------------- forgot_password
ForgotMessage ==
    "If an account exists with this email, you will receive a password reset link."

\* mutant: the reset token is stored without its expiry
ResetRequestedRow_NoExpiry(row, token, t) ==
    [row EXCEPT !.password_reset_token = token, !.updated_at = t]

\* UPDATE users SET password_reset_token, password_reset_expires, updated_at
ResetRequestedRow(row, token, t) ==
    [row EXCEPT !.password_reset_token = token,
                !.password_reset_expires = t + RESET_HOURS * MINUTES_PER_HOUR,
                !.updated_at = t]

\* the SELECT by email; no account, or an unverified one, ends the handler
ForgotSelect(r, email) ==
    /\ FreeSlot(r)
    /\ LET snap == FindByEmail(users, email)
           rq == [Idle EXCEPT !.op = "forgot", !.email = email, !.snap = snap]
       IN IF snap = NoRow \/ ~snap.email_verified
          THEN Done(r, Finished(rq, snap, snap, 200, ForgotMessage, NoBearer, NoMail))
          ELSE reqs' = [reqs EXCEPT ![r] = rq] /\ last' = NoLast
    /\ UNCHANGED <<users, now, ticks, rand, accepted, issued, guard>>

\* the reset token is stored, committed and mailed
ForgotFinish(r) ==
    /\ reqs[r].op = "forgot"
    /\ rand < MaxRand
    /\ rand' = rand + 1
    /\ LET rq == reqs[r]
           cur == users[rq.snap.id]
           after == ResetRequestedRow(cur, generate_verification_token(rand), now)
       IN /\ users' = Put(users, rq.snap.id, after)
          /\ issued' = issued \cup {Issued("reset", generate_verification_token(rand))}
          /\ \E provider_ok \in BOOLEAN :
                LET delivered == send_email(provider_ok)
                    response == AfterSend(<<200, ForgotMessage>>, delivered)
                IN Done(r, Finished(rq, cur, after, response[1], response[2],
                       NoBearer,
                       [kind |-> "reset", to |-> rq.email,
                        token |-> generate_verification_token(rand),
                        delivered |-> delivered]))
    /\ UNCHANGED <<now, ticks, accepted, guard>>

\* -------------------------------------------------------- reset_password
\* mutant: the expiry of the reset link is not looked at
ResetExpired_Never(snap, t) == FALSE

\* `if user_data.password_reset_expires < datetime.now(timezone.utc)`
ResetExpired(snap, t) == snap.password_reset_expires < t

\* mutant: the new hash is stored and the reset token is left in place
PasswordResetRow_KeepsToken(row, hashed, t) ==
    [row EXCEPT !.hashed_password = hashed, !.last_password_change = t,
                !.updated_at = t, !.failed_login_attempts = 0, !.is_locked = FALSE]

\* mutant: the reset leaves the lock flag as it was
PasswordResetRow_KeepsLock(row, hashed, t) ==
    [row EXCEPT !.hashed_password = hashed, !.password_reset_token = NoToken,
                !.password_reset_expires = NULL, !.last_password_change = t,
                !.updated_at = t, !.failed_login_attempts = 0]

\* UPDATE users SET hashed_password, password_reset_token = NULL, ...,
\*                  failed_login_attempts = 0, is_locked = false
PasswordResetRow(row, hashed, t) ==
    [row EXCEPT !.hashed_password = hashed, !.password_reset_token = NoToken,
                !.password_reset_expires = NULL, !.last_password_change = t,
                !.updated_at = t, !.failed_login_attempts = 0, !.is_locked = FALSE]

\* the SELECT of the row holding the reset token
ResetSelect(r, token, new_password) ==
    /\ FreeSlot(r)
    /\ LET snap == FindByResetToken(users, token)
           rq == [Idle EXCEPT !.op = "reset", !.token = token,
                              !.password = new_password, !.snap = snap,
                              !.reused = token \in accepted]
       IN IF snap = NoRow
          THEN Done(r, Finished(rq, NoRow, NoRow, 400, "Invalid or expired reset link",
                                NoBearer, NoMail))
          ELSE reqs' = [reqs EXCEPT ![r] = rq] /\ last' = NoLast
    /\ UNCHANGED <<users, now, ticks, rand, accepted, issued, guard>>

\* the expiry check, the new hash, the UPDATE and db.commit()
ResetFinish(r) ==
    /\ reqs[r].op = "reset"
    /\ LET rq == reqs[r]
           snap == rq.snap
           cur == users[snap.id]
       IN IF ResetExpired(snap, now)
          THEN /\ users' = users
               /\ rand' = rand
               /\ accepted' = accepted
               /\ Done(r, Finished(rq, cur, cur, 400, "Reset link has expired. Please request a new one.",
                                   NoBearer, NoMail))
          ELSE /\ rand < MaxRand
               /\ rand' = rand + 1
               /\ accepted' = accepted \cup {rq.token}
               /\ LET after == PasswordResetRow(cur,
                                   get_password_hash(rq.password, rand + 1), now)
                  IN /\ users' = Put(users, snap.id, after)
                     /\ Done(r, Finished(rq, cur, after, 200,
                                         "Password reset successfully. You can now log in with your new password.", NoBearer, NoMail))
    /\ UNCHANGED <<now, ticks, issued, guard>>

\* ------------------------------------------------------- storage failure
\* mutant: forgot_password reports a failure of the store like the others
FailureResponse_Always500(op) == <<500, "Password reset failed. Please try again.">>

\* the generic handler of each operation: `except Exception` turns a
\* failure of the store into a 500, and in forgot_password into the
\* generic success; nothing of the failed statement is committed
FailureResponse(op) ==
    IF op = "forgot" THEN <<200, ForgotMessage>>
    ELSE IF op = "register" THEN <<500, "Registration failed. Please try again.">>
    ELSE IF op = "verify" THEN <<500, "Verification failed. Please try again.">>
    ELSE IF op = "login" THEN <<500, "Login failed. Please try again.">>
    ELSE IF op = "authenticate" THEN <<401, "Incorrect username or password">>
    ELSE <<500, "Password reset failed. Please try again.">>

\* the handler in flight has a statement still to run (verify_email and
\* reset_password raise on an expired token before their UPDATE)
HasStatementLeft(rq, t) ==
    /\ rq.op # "idle"
    /\ rq.op = "verify" => ~VerificationExpired(rq.snap, t)
    /\ rq.op = "reset" => ~ResetExpired(rq.snap, t)

StorageFailure(r) ==
    /\ HasStatementLeft(reqs[r], now)
    /\ LET rq == reqs[r]
           cur == RowOf(users, rq.snap.id)
           resp == FailureResponse(rq.op)
       IN Done(r, [Finished(rq, cur, cur, resp[1], resp[2], NoBearer, NoMail)
                     EXCEPT !.failed = TRUE])
    /\ UNCHANGED <<users, now, ticks, rand, accepted, issued, guard>>

\* ------------------------------------------------------ GoogleAuthService
\* os.getenv("GOOGLE_CLIENT_ID")
GOOGLE_CLIENT_ID == "client-1"
OTHER_CLIENT_ID == "client-2"

\* what a caller can send as `credential`: an ID token, an access token or
\* something else. `genuine`: Google signed the ID token, resp. knows the
\* access token, and it has not expired. `iss_ok`: the ID token names a
\* Google issuer.
GoogleIdTokens ==
    [kind : {"id"}, aud : {GOOGLE_CLIENT_ID, OTHER_CLIENT_ID},
     genuine : BOOLEAN, iss_ok : BOOLEAN, sub : {"g1"}, email : Emails,
     email_verified : BOOLEAN]
GoogleAccessTokens ==
    [kind : {"access"}, aud : {GOOGLE_CLIENT_ID, OTHER_CLIENT_ID},
     genuine : BOOLEAN, iss_ok : {TRUE}, sub : {"g1"}, email : Emails,
     email_verified : BOOLEAN]
GoogleJunk ==
    [kind |-> "junk", aud |-> OTHER_CLIENT_ID, genuine |-> FALSE,
     iss_ok |-> FALSE, sub |-> "g1", email |-> Email1,
     email_verified |-> FALSE]
GoogleTokens == GoogleIdTokens \cup GoogleAccessTokens \cup {GoogleJunk}

\* get_user_profile: None, or the People API profile with its primary email
NoProfile == <<>>
Profiles == {NoProfile} \cup {[email |-> e] : e \in Emails}

NoClaims ==
    [provider |-> "", user_id |-> "", email |-> NoEmail,
     email_verified |-> FALSE]

\* the result of validate_token: user_info, or the HTTPException raised
Validated(user_info) ==
    [status |-> 200, detail |-> "", cause |-> "", claims |-> user_info]
Refused(status_code, detail, cause) ==
    [status |-> status_code, detail |-> detail, cause |-> cause,
     claims |-> NoClaims]

\* id_token.verify_oauth2_token(token, Request(), audience): the claims,
\* ValueError (not an ID token, bad signature, expired, other audience),
\* or another exception (wrong issuer, certificates not reachable)
verify_oauth2_token(token, audience, reachable) ==
    IF token.kind # "id" THEN "ValueError"
    ELSE IF ~reachable THEN "TransportError"
    ELSE IF ~token.genuine \/ token.aud # audience THEN "ValueError"
    ELSE IF ~token.iss_ok THEN "GoogleAuthError"
    ELSE "ok"

\* user_info of the ID-token path
IdTokenUserInfo(token) ==
    [provider |-> "google", user_id |-> token.sub, email |-> token.email,
     email_verified |-> token.email_verified]

\* user_info of the access-token path; user_info.update(profile)
AccessTokenUserInfo(token, profile) ==
    [provider |-> "google", user_id |-> token.sub,
     email |-> IF profile = NoProfile THEN token.email ELSE profile.email,
     email_verified |-> token.email_verified]

\* `token_info.get("aud") != self.client_id`
AudienceMismatch_Never(token, client_id) == FALSE

AudienceMismatch(token, client_id) == token.aud # client_id

\* _validate_access_token: GET tokeninfo?access_token=...
validate_access_token(token, client_id, reachable, profile) ==
    IF ~reachable
    THEN Refused(401, "Failed to validate access token", "")
    ELSE IF ~(token.kind = "access" /\ token.genuine)
    THEN Refused(401, "Invalid access token", "")
    ELSE IF AudienceMismatch(token, client_id)
    THEN Refused(401, "Token audience mismatch", "")
    ELSE Validated(AccessTokenUserInfo(token, profile))

\* validate_token: the outer `except Exception` wraps every failure,
\* the HTTPException of the access-token path included
validate_token(enabled, client_id, token, reachable, profile) ==
    IF ~enabled
    THEN Refused(503, "Google authentication is not enabled", "")
    ELSE LET id == verify_oauth2_token(token, client_id, reachable)
         IN IF id = "ok" THEN Validated(IdTokenUserInfo(token))
            ELSE IF id = "ValueError"
            THEN LET r == validate_access_token(token, client_id, reachable,
                                                profile)
                 IN IF r.status = 200 THEN r
                    ELSE Refused(401, "Invalid Google token: ", r.detail)
            ELSE Refused(401, "Invalid Google token: ", id)

\* GoogleAuthService.validate_token(token)
ValidateToken(enabled, token, reachable, profile) ==
    /\ last' = Called("validate_token",
                      [enabled |-> enabled, token |-> token,
                       reachable |-> reachable, profile |-> profile],
                      validate_token(enabled, GOOGLE_CLIENT_ID, token,
                                     reachable, profile))
    /\ UNCHANGED <<users, now, ticks, rand, accepted, reqs, issued, guard>>

\* ----------------------------------------- POST /api/auth/google/login
\* the address as the string that goes into the token
EmailString(email) == email.local \o <<"@", email.domain>>

\* create_access_token(data={"sub": user_info.get("email"),
\*                           "provider": "google"})
GoogleLoginToken(user_info, t) ==
    create_access_token([sub |-> EmailString(user_info.email),
                         provider |-> "google"], NoDelta, t)

\* the route: 503 without an enabled service, the HTTPException of
\* validate_token re-raised, else a token and the user dictionary
GoogleLogin(enabled, token, reachable, profile) ==
    /\ LET arg == [enabled |-> enabled, token |-> token,
                   reachable |-> reachable, profile |-> profile]
           v == validate_token(enabled, GOOGLE_CLIENT_ID, token, reachable,
                               profile)
       IN last' =
            IF ~enabled
            THEN [Called("google_login", arg, v) EXCEPT
                    !.status = 503,
                    !.detail = "Google authentication is not configured or unavailable"]
            ELSE IF v.status # 200
            THEN [Called("google_login", arg, v) EXCEPT
                    !.status = v.status, !.detail = v.detail]
            ELSE [Called("google_login", arg, v) EXCEPT
                    !.status = 200,
                    !.bearer = GoogleLoginToken(v.claims, now)]
    /\ UNCHANGED <<users, now, ticks, rand, accepted, reqs, issued, guard>>

\* ------------------------------------- get_current_user_id, require_user
\* Optional[HTTPAuthorizationCredentials]: <<>> is None, <<token>> a bearer
NoCredentials == <<>>

\* request.headers.get("x-ms-client-principal-id"): "" when there is none
NoPrincipal == ""

\* what the gate returns or raises; user_id 0 is None
Anonymous == [raised |-> FALSE, status |-> 200, detail |-> "", user_id |-> 0]
ResolvedAs(id) ==
    [raised |-> FALSE, status |-> 200, detail |-> "", user_id |-> id]
Raised(status_code, detail) ==
    [raised |-> TRUE, status |-> status_code, detail |-> detail, user_id |-> 0]

\* SELECT id FROM users WHERE oauth_provider_id = :provider_id
FindIdByProviderId(tbl, provider_id) ==
    IF \E i \in 1..Len(tbl) : tbl[i].oauth_provider_id = provider_id
    THEN tbl[CHOOSE i \in 1..Len(tbl) :
                 tbl[i].oauth_provider_id = provider_id].id
    ELSE 0

\* SELECT id FROM users WHERE username = :username
FindIdByUsername(tbl, username) ==
    IF \E i \in 1..Len(tbl) : tbl[i].username = username
    THEN tbl[CHOOSE i \in 1..Len(tbl) : tbl[i].username = username].id
    ELSE 0

\* `except Exception: pass`, then `return None`
BearerFailure_Propagates(status_code, detail) == Raised(status_code, detail)

BearerFailure(status_code, detail) == Anonymous

\* the branch `if azure_principal:`; a failing statement is not caught
PrincipalBranch(tbl, principal, db_ok) ==
    IF ~db_ok THEN Raised(500, "Internal Server Error")
    ELSE ResolvedAs(FindIdByProviderId(tbl, principal))

\* the branch `if credentials:`
BearerBranch(tbl, credentials, t, db_ok) ==
    IF credentials = NoCredentials THEN Anonymous
    ELSE LET token_data == verify_token(credentials[1], t)
         IN IF ~token_data.ok
            THEN BearerFailure(token_data.status, token_data.detail)
            ELSE IF ~db_ok
            THEN BearerFailure(500, "Internal Server Error")
            ELSE ResolvedAs(FindIdByUsername(tbl, token_data.username))

get_current_user_id(tbl, principal, credentials, t, db_ok) ==
    IF principal # NoPrincipal
    THEN PrincipalBranch(tbl, principal, db_ok)
    ELSE BearerBranch(tbl, credentials, t, db_ok)

\* get_required_user: `if not user_id: raise HTTPException(401, ...)`
get_required_user(resolved) ==
    IF resolved.raised THEN resolved
    ELSE IF resolved.user_id = 0 THEN Raised(401, "Authentication required")
    ELSE resolved

GateArg(principal, credentials, db_ok) ==
    [principal |-> principal, credentials |-> credentials, db_ok |-> db_ok,
     resolved |-> get_current_user_id(users, principal, credentials, now,
                                      db_ok)]

GetCurrentUserId(principal, credentials, db_ok) ==
    /\ last' = Called("get_current_user_id",
                      GateArg(principal, credentials, db_ok),
                      get_current_user_id(users, principal, credentials, now,
                                          db_ok))
    /\ UNCHANGED <<users, now, ticks, rand, accepted, reqs, issued, guard>>

RequireUser(principal, credentials, db_ok) ==
    /\ last' = Called("require_user",
                      GateArg(principal, credentials, db_ok),
                      get_required_user(
                          get_current_user_id(users, principal, credentials,
                                              now, db_ok)))
    /\ UNCHANGED <<users, now, ticks, rand, accepted, reqs, issued, guard>>

\* ------------------------------------------------------ get_current_user
\* get_user: the active row of the username, None when there is none or
\* the statement fails
get_user(tbl, username, db_ok) ==
    IF ~db_ok THEN NoRow ELSE FindActiveByUsername(tbl, username)

\* get_current_user: the user of the token (here by the id of its row);
\* every exception, the 401 "User not found" included, leaves as
\* 401 "Invalid authentication credentials"
get_current_user(tbl, credentials, t, db_ok) ==
    IF credentials = NoCredentials
    THEN Raised(401, "Invalid authentication credentials")
    ELSE LET token_data == verify_token(credentials[1], t)
         IN IF ~token_data.ok
            THEN Raised(401, "Invalid authentication credentials")
            ELSE IF get_user(tbl, token_data.username, db_ok) = NoRow
            THEN Raised(401, "Invalid authentication credentials")
            ELSE ResolvedAs(get_user(tbl, token_data.username, db_ok).id)

GetCurrentUser(credentials, db_ok) ==
    /\ last' = Called("get_current_user",
                      GateArg(NoPrincipal, credentials, db_ok),
                      get_current_user(users, credentials, now, db_ok))
    /\ UNCHANGED <<users, now, ticks, rand, accepted, reqs, issued, guard>>

\* -------------------------------------------------- webhook_auth_required
\* settings.SENTRY_WEBHOOK_TOKEN
SENTRY_WEBHOOK_TOKEN == "hook-token"

\* the value the coroutine verify_sentry_webhook produces when awaited
verify_sentry_webhook(token) == token = SENTRY_WEBHOOK_TOKEN

\* `if not verify_sentry_webhook(...)` without await: the operand is the
\* coroutine object, which is truthy whatever it would produce
UnawaitedIsTruthy(result) == TRUE

\* webhook_checker: credentials.credentials of None raises AttributeError
webhook_checker(credentials) ==
    IF credentials = NoCredentials THEN Raised(500, "Internal Server Error")
    ELSE IF ~UnawaitedIsTruthy(verify_sentry_webhook(credentials[1]))
    THEN Raised(401, "Invalid webhook token")
    ELSE Anonymous

WebhookCredentials ==
    {NoCredentials, <<SENTRY_WEBHOOK_TOKEN>>, <<"other-token">>, <<"">>}

WebhookChecker(credentials) ==
    /\ last' = Called("webhook_auth_required", [credentials |-> credentials],
                      webhook_checker(credentials))
    /\ UNCHANGED <<users, now, ticks, rand, accepted, reqs, issued, guard>>

\* ------------------------------------------------------ check_permissions
\* any(role in current_user.roles for role in required_roles)
HasAnyRole_EmptyAdmits(roles, required_roles) ==
    \/ required_roles = <<>>
    \/ \E i \in 1..Len(required_roles), j \in 1..Len(roles) :
          roles[j] = required_roles[i]

HasAnyRole(roles, required_roles) ==
    \E i \in 1..Len(required_roles), j \in 1..Len(roles) :
        roles[j] = required_roles[i]

\* permission_checker(current_user): the user, or 403
permission_checker(roles, required_roles) ==
    IF ~HasAnyRole(roles, required_roles)
    THEN [status |-> 403, detail |-> "Not enough permissions",
          admitted |-> FALSE]
    ELSE [status |-> 200, detail |-> "", admitted |-> TRUE]

\* check_permissions(required_roles) applied to an active user with `roles`
CheckPermissions(roles, required_roles) ==
    /\ last' = Called("check_permissions",
                      [roles |-> roles, required_roles |-> required_roles],
                      permission_checker(roles, required_roles))
    /\ UNCHANGED <<users, now, ticks, rand, accepted, reqs, issued, guard>>

\* ------------------------------------------------------------------ Next
\* every handler, one at a time, for one address
Next ==
    \/ \E d \in {VERIFY_HOURS * MINUTES_PER_HOUR + 1} : Tick(d)
    \/ \E e \in Emails, p \in Passwords : LoginSelect(1, e, p)
    \/ LoginFinish(1)
    \/ \E p \in Passwords : RegisterSelect(1, Email1, p, "Al")
    \/ RegisterResend(1)
    \/ RegisterPrepare(1)
    \/ RegisterInsert(1)
    \/ \E t \in 1..MaxRand : VerifySelect(1, t)
    \/ VerifyFinish(1)
    \/ \E e \in Emails : ForgotSelect(1, e)
    \/ ForgotFinish(1)
    \/ \E t \in 1..MaxRand, p \in Passwords : ResetSelect(1, t, p)
    \/ ResetFinish(1)
    \/ StorageFailure(1)

Spec == Init /\ [][Next]_vars

\* login_with_email alone, two handlers in flight, on an existing account
NextLockout ==
    \/ \E d \in LockSteps : Tick(d)
    \/ \E r \in Slots, e \in Emails, p \in Passwords : LoginSelect(r, e, p)
    \/ \E r \in Slots : LoginFinish(r)
    \/ \E r \in Slots : StorageFailure(r)

\* an account exists before the first request
InitSeeded == Init /\ users # <<>>

SpecLockout == InitSeeded /\ [][NextLockout]_vars

\* login, forgot_password and reset_password on an existing account
NextReset ==
    \/ \E d \in ResetSteps : Tick(d)
    \/ \E p \in Passwords : LoginSelect(1, Email1, p)
    \/ LoginFinish(1)
    \/ ForgotSelect(1, Email1)
    \/ ForgotFinish(1)
    \/ \E t \in 1..MaxRand : ResetSelect(1, t, "pw2")
    \/ ResetFinish(1)
    \/ StorageFailure(1)

SpecReset == InitSeeded /\ [][NextReset]_vars

\* register_user alone, two handlers in flight, for two addresses that
\* share their local part
NextRegister ==
    \/ \E r \in Slots, e \in Emails, n \in Names : RegisterSelect(r, e, "pw1", n)
    \/ \E r \in Slots : RegisterResend(r)
    \/ \E r \in Slots : RegisterPrepare(r)
    \/ \E r \in Slots : RegisterInsert(r)
    \/ \E r \in Slots : StorageFailure(r)

SpecRegister == Init /\ [][NextRegister]_vars

\* register_user and verify_email, two handlers in flight, from an empty table
NextVerify ==
    \/ \E d \in VerifySteps : Tick(d)
    \/ \E r \in Slots : RegisterSelect(r, Email1, "pw1", "Al")
    \/ \E r \in Slots : RegisterResend(r)
    \/ \E r \in Slots : RegisterPrepare(r)
    \/ \E r \in Slots : RegisterInsert(r)
    \/ \E r \in Slots, t \in 1..MaxRand : VerifySelect(r, t)
    \/ \E r \in Slots : VerifyFinish(r)
    \/ \E r \in Slots : StorageFailure(r)

\* the table is empty before the first request
InitEmpty == Init /\ users = <<>>

SpecVerify == InitEmpty /\ [][NextVerify]_vars

\* the token flows (register_user, verify_email, forgot_password and
\* reset_password), two handlers in flight, the clock standing still
NextTokens ==
    \/ \E r \in Slots, p \in Passwords : RegisterSelect(r, Email1, p, "Al")
    \/ \E r \in Slots : RegisterResend(r)
    \/ \E r \in Slots : RegisterPrepare(r)
    \/ \E r \in Slots : RegisterInsert(r)
    \/ \E r \in Slots, t \in 1..MaxRand : VerifySelect(r, t)
    \/ \E r \in Slots : VerifyFinish(r)
    \/ \E r \in Slots : ForgotSelect(r, Email1)
    \/ \E r \in Slots : ForgotFinish(r)
    \/ \E r \in Slots, t \in 1..MaxRand, p \in Passwords : ResetSelect(r, t, p)
    \/ \E r \in Slots : ResetFinish(r)
    \/ \E r \in Slots : StorageFailure(r)

SpecTokens == Init /\ [][NextTokens]_vars

\* forgot_password for an address without an account, with an unverified
\* and with a verified one, one handler at a time
NextForgot ==
    \/ \E d \in ResetSteps : Tick(d)
    \/ \E n \in Names : RegisterSelect(1, Email1, "pw1", n)
    \/ RegisterResend(1)
    \/ RegisterPrepare(1)
    \/ RegisterInsert(1)
    \/ \E t \in 1..MaxRand : VerifySelect(1, t)
    \/ VerifyFinish(1)
    \/ \E e \in Emails : ForgotSelect(1, e)
    \/ ForgotFinish(1)
    \/ StorageFailure(1)

SpecForgot == Init /\ [][NextForgot]_vars

\* an account as the program and its operator can have left it: unverified
\* (create_user stores no token), disabled, or locked by five failures
OrderSeedRow(verified, active, locked) ==
    [SeedRow(active) EXCEPT
        !.email_verified = verified,
        !.is_locked = locked,
        !.failed_login_attempts = IF locked THEN LOCK_THRESHOLD ELSE 0,
        !.locked_until = IF locked THEN LOCK_MINUTES ELSE NULL]

InitOrder ==
    /\ users \in {<<OrderSeedRow(v, a, l)>> :
                     v \in BOOLEAN, a \in BOOLEAN, l \in BOOLEAN} \ {<<OrderSeedRow(FALSE, a, TRUE)>> : a \in BOOLEAN}
    /\ now = 0
    /\ ticks = 0
    /\ rand = 0
    /\ accepted = {}
    /\ issued = {}
    /\ guard = NoGuard
    /\ reqs = [r \in Slots |-> Idle]
    /\ last = NoLast

\* login_with_email, one handler at a time, on such an account
NextOrder ==
    \/ \E d \in LockSteps : Tick(d)
    \/ \E e \in Emails, p \in Passwords : LoginSelect(1, e, p)
    \/ LoginFinish(1)
    \/ StorageFailure(1)

SpecOrder == InitOrder /\ [][NextOrder]_vars

\* the two password logins, forgot_password and reset_password on an
\* existing account, one handler at a time
NextPassword ==
    \/ \E d \in LockSteps : Tick(d)
    \/ \E p \in Passwords : LoginSelect(1, Email1, p)
    \/ LoginFinish(1)
    \/ \E u \in {Email1.local, <<"b">>}, p \in Passwords : AuthenticateSelect(1, u, p)
    \/ AuthenticateFinish(1)
    \/ ForgotSelect(1, Email1)
    \/ ForgotFinish(1)
    \/ \E t \in 1..MaxRand : ResetSelect(1, t, "pw2")
    \/ ResetFinish(1)
    \/ StorageFailure(1)

SpecPassword == InitSeeded /\ [][NextPassword]_vars

\* ------------------------------------- create_access_token, verify_token
Subjects == {<<>>, <<"a">>, <<"b">>}
RoleLists == {<<>>, <<"user">>, <<"user", "admin">>}
Deltas ==
    {NoDelta, <<0>>, <<0 - 1>>, <<1>>, <<2 * ACCESS_TOKEN_EXPIRE_MINUTES>>}
CodecSteps == {1, ACCESS_TOKEN_EXPIRE_MINUTES}
OTHER_KEY == "other-key"

\* the `data` dictionaries a caller passes
TokenDatas ==
    {[sub |-> s, scopes |-> rl] : s \in Subjects, rl \in RoleLists}
        \cup {[sub |-> s] : s \in Subjects}
        \cup {[scopes |-> rl] : rl \in RoleLists}

\* a string that is no JWT
Garbage == [garbage |-> TRUE]

\* create_access_token(data, expires_delta)
IssueToken(data, expires_delta) ==
    /\ last' = Called("create_access_token",
                      [data |-> data, expires_delta |-> expires_delta],
                      create_access_token(data, expires_delta, now))
    /\ UNCHANGED <<users, now, ticks, rand, accepted, reqs, issued, guard>>

\* verify_token on a token that create_access_token returned at issued_at
VerifyIssued(data, expires_delta, issued_at) ==
    /\ issued_at <= now
    /\ LET token == create_access_token(data, expires_delta, issued_at)
       IN last' = Called("verify_token",
                         [token |-> token, issued |-> TRUE, data |-> data,
                          expires_delta |-> expires_delta,
                          issued_at |-> issued_at],
                         verify_token(token, now))
    /\ UNCHANGED <<users, now, ticks, rand, accepted, reqs, issued, guard>>

\* verify_token on a token this service never issued
VerifyForged(token) ==
    /\ last' = Called("verify_token",
                      [token |-> token, issued |-> FALSE, data |-> <<>>,
                       expires_delta |-> NoDelta, issued_at |-> NULL],
                      verify_token(token, now))
    /\ UNCHANGED <<users, now, ticks, rand, accepted, reqs, issued, guard>>

ForgedTokens ==
    {Garbage}
        \cup {[exp |-> now + ACCESS_TOKEN_EXPIRE_MINUTES, sig |-> OTHER_KEY] @@ d :
                 d \in TokenDatas}

NextCodec ==
    \/ \E d \in CodecSteps : Tick(d)
    \/ \E data \in TokenDatas, delta \in Deltas : IssueToken(data, delta)
    \/ \E data \in TokenDatas, delta \in Deltas, t \in {0, now} :
           VerifyIssued(data, delta, t)
    \/ \E token \in ForgedTokens : VerifyForged(token)

SpecCodec == InitEmpty /\ [][NextCodec]_vars

\* the Google validator on its own, over every credential
NextGoogle ==
    \E enabled \in BOOLEAN, token \in GoogleTokens, reachable \in BOOLEAN,
       profile \in Profiles :
        ValidateToken(enabled, token, reachable, profile)

SpecGoogle == InitEmpty /\ [][NextGoogle]_vars

\* credentials sent to the login route: ID tokens and access tokens that
\* Google issued, for either client, and one that is neither
LoginCredentials ==
    {t \in GoogleTokens : t.genuine /\ t.iss_ok /\ t.email_verified}
        \cup {GoogleJunk}

\* the sites that issue bearer tokens to an existing account
NextOAuth ==
    \/ \E password \in Passwords : LoginSelect(1, Email1, password)
    \/ LoginFinish(1)
    \/ \E password \in Passwords :
           AuthenticateSelect(1, Email1.local, password)
    \/ AuthenticateFinish(1)
    \/ \E enabled \in BOOLEAN, token \in LoginCredentials,
          profile \in Profiles :
           GoogleLogin(enabled, token, TRUE, profile)

SpecOAuth == InitSeeded /\ [][NextOAuth]_vars

\* an account created for a Google identity, next to the password account
OAuthSeedRow ==
    [NoRow EXCEPT !.id = 2, !.username = <<"b">>, !.email = Email2,
                  !.email_verified = TRUE, !.oauth_provider = "google",
                  !.oauth_provider_id = "g1", !.updated_at = 0]

InitGate ==
    /\ users \in {<<SeedRow(a)>> : a \in BOOLEAN}
                   \cup {<<SeedRow(a), OAuthSeedRow>> : a \in BOOLEAN}
    /\ now = 0
    /\ ticks = 0
    /\ rand = 0
    /\ accepted = {}
    /\ issued = {}
    /\ guard = NoGuard
    /\ reqs = [r \in Slots |-> Idle]
    /\ last = NoLast

Principals == {NoPrincipal, "g1", "g9"}

\* bearer tokens a request can carry: issued to a user of the table or to
\* a name that is in no row, short-lived or not, signed with another key,
\* issued by the Google login route, or no JWT at all
GateTokens ==
    {create_access_token([sub |-> u, scopes |-> <<"user">>], delta, 0) :
        u \in {<<"a">>, <<"z">>}, delta \in {NoDelta, <<1>>}}
      \cup {[exp |-> ACCESS_TOKEN_EXPIRE_MINUTES, sig |-> OTHER_KEY]
               @@ [sub |-> <<"a">>, scopes |-> <<"user">>],
             GoogleLoginToken([email |-> Email1], 0),
             Garbage}

GateCredentials == {NoCredentials} \cup {<<t>> : t \in GateTokens}

UserRoleLists == {<<>>, <<"user">>, <<"user", "admin">>}
RequiredRoleLists ==
    {<<>>, <<"user">>, <<"admin">>, <<"admin", "analyst">>,
     <<"analyst", "user">>}

NextGate ==
    \/ \E d \in CodecSteps : Tick(d)
    \/ \E principal \in Principals, credentials \in GateCredentials,
          db_ok \in BOOLEAN :
           \/ GetCurrentUserId(principal, credentials, db_ok)
           \/ RequireUser(principal, credentials, db_ok)
    \/ \E credentials \in GateCredentials, db_ok \in BOOLEAN :
           GetCurrentUser(credentials, db_ok)
    \/ \E credentials \in WebhookCredentials : WebhookChecker(credentials)
    \/ \E roles \in UserRoleLists, required_roles \in RequiredRoleLists :
           CheckPermissions(roles, required_roles)

SpecGate == InitGate /\ [][NextGate]_vars

\* a verified account that an operator has locked by hand: is_locked is set
\* and locked_until is not
ManualLockSeedRow(active) ==
    [SeedRow(active) EXCEPT !.is_locked = TRUE]

InitManualLock ==
    /\ users \in {<<ManualLockSeedRow(a)>> : a \in BOOLEAN}
    /\ now = 0
    /\ ticks = 0
    /\ rand = 0
    /\ accepted = {}
    /\ issued = {}
    /\ guard = NoGuard
    /\ reqs = [r \in Slots |-> Idle]
    /\ last = NoLast

\* login_with_email on such an account, one handler at a time
NextManualLock ==
    \/ \E d \in LockSteps : Tick(d)
    \/ \E p \in Passwords : LoginSelect(1, Email1, p)
    \/ LoginFinish(1)
    \/ StorageFailure(1)

SpecManualLock == InitManualLock /\ [][NextManualLock]_vars

\* register_user for one address: the first call with password "pw1" and a
\* name, every later call with password "pw2" and no name
RegisterThenRetry(r) ==
    LET first == FindByEmail(users, Email1) = NoRow
    IN RegisterSelect(r, Email1, IF first THEN "pw1" ELSE "pw2",
                      IF first THEN "Al" ELSE NoName)

\* registration with retries, verification and login, one handler at a time
NextRetry ==
    \/ RegisterThenRetry(1)
    \/ RegisterResend(1)
    \/ RegisterPrepare(1)
    \/ RegisterInsert(1)
    \/ \E t \in 1..MaxRand : VerifySelect(1, t)
    \/ VerifyFinish(1)
    \/ \E p \in Passwords : LoginSelect(1, Email1, p)
    \/ LoginFinish(1)

SpecRetry == InitEmpty /\ [][NextRetry]_vars

\* ---------------------------------------- alert safeguards (the Oracle)
\* Redis keys expire: the entries of `keys` that still exist at `clock`
Live(keys, clock) == {k \in keys : k.expires > clock}

\* strftime('%M'): the minute of the hour
MinuteLabel(clock) == (clock \div SECONDS_PER_MINUTE) % MINUTES_PER_HOUR

\* GET dedupe_key: whether the key holds a value
RedisGet(dedupe, key, clock) ==
    \E m \in Live(dedupe, clock) : m.key = key

\* the throttle key of `label` with its history, a key that does not exist
\* reading as one with count 0
ThrottleKey(throttle, label, clock) ==
    IF \E k \in Live(throttle, clock) : k.label = label
    THEN CHOOSE k \in Live(throttle, clock) : k.label = label
    ELSE [label |-> label, count |-> 0, expires |-> 0, admitted |-> 0]

\* INCR minute_key followed by EXPIRE minute_key 60: the new count, and
\* the keys afterwards (`admitted` is history: the alerts accepted under
\* this key since it was created)
RedisIncr(throttle, label, clock) ==
    LET old == ThrottleKey(throttle, label, clock)
        new == [old EXCEPT !.count = old.count + 1,
                           !.expires = clock + THROTTLE_TTL]
    IN [count |-> new.count,
        keys |-> {k \in Live(throttle, clock) : k.label # label}
                   \cup {new}]

\* SETEX dedupe_key 60 "1"
RedisSetex(dedupe, key, clock) ==
    {m \in Live(dedupe, clock) : m.key # key}
        \cup {[key |-> key, expires |-> clock + DEDUPE_WINDOW_SECONDS]}

\* mutant: the limit admits one alert more
OverLimit_OneMore(current_minute_count) ==
    current_minute_count > GLOBAL_MINUTE_LIMIT + 1

\* if current_minute_count > GLOBAL_MINUTE_LIMIT
OverLimit(current_minute_count) ==
    current_minute_count > GLOBAL_MINUTE_LIMIT

\* a (source, alert_type, description) that no dedupe key and no request
\* in flight carries
FreshKey ==
    LET used(k) == \/ RedisGet(guard.dedupe, k, guard.clock)
                   \/ \E r \in Slots : /\ guard.flight[r].stage # "idle"
                                       /\ guard.flight[r].key = k
    IN CHOOSE k \in 1..(MaxAlerts + 4) :
           ~used(k) /\ \A j \in 1..(k - 1) : used(j)

\* the clock of the alert service moves by d seconds; keys whose time to
\* live has run out are gone
GuardTick(d) ==
    /\ ticks < MaxTicks
    /\ ticks' = ticks + 1
    /\ guard' = [guard EXCEPT !.clock = @ + d,
                              !.throttle = Live(@, guard.clock + d),
                              !.dedupe = Live(@, guard.clock + d)]
    /\ last' = NoLast
    /\ UNCHANGED <<users, now, rand, accepted, issued, reqs>>

\* POST /api/alerts, up to the answer of the pipeline: check_abuse_safeguards
\* runs GET dedupe_key, INCR minute_key and EXPIRE minute_key in one
\* MULTI/EXEC transaction; at most `cap` requests are counted under one key
AlertPipeline(r, key, cap) ==
    LET label == MinuteLabel(guard.clock)
        incr == RedisIncr(guard.throttle, label, guard.clock)
    IN /\ guard.flight[r].stage = "idle"
       /\ \A q \in Slots : q < r => guard.flight[q].stage # "idle"
       /\ incr.count <= cap
       /\ guard' = [guard EXCEPT
              !.throttle = incr.keys,
              !.flight[r] =
                  [stage |-> "decide", key |-> key, label |-> label,
                   is_duplicate |-> RedisGet(guard.dedupe, key, guard.clock),
                   current_minute_count |-> incr.count]]
       /\ last' = NoLast
       /\ UNCHANGED <<users, now, ticks, rand, accepted, issued, reqs>>

\* what the handler knows and finds when it decides; `marked`: the dedupe
\* key holds a value by now, `admitted`: the alerts accepted so far under
\* the throttle key of this request
AlertArg(rq) ==
    [key |-> rq.key, label |-> rq.label, clock |-> guard.clock,
     is_duplicate |-> rq.is_duplicate,
     current_minute_count |-> rq.current_minute_count,
     marked |-> RedisGet(guard.dedupe, rq.key, guard.clock),
     admitted |-> ThrottleKey(guard.throttle, rq.label,
                              guard.clock).admitted]

\* the rest of the handler: a duplicate and an alert over the limit are
\* answered "filtered_or_throttled" and not saved; any other alert is
\* marked as seen with SETEX, saved and answered "received"
AlertDecide(r) ==
    LET rq == guard.flight[r]
        t == guard.clock
        dropped == rq.is_duplicate \/ OverLimit(rq.current_minute_count)
        key == ThrottleKey(guard.throttle, rq.label, t)
    IN /\ rq.stage = "decide"
       /\ guard' = [guard EXCEPT
              !.flight[r] = NoAlert,
              !.dedupe = IF dropped THEN @ ELSE RedisSetex(@, rq.key, t),
              !.throttle = IF dropped \/ key.count = 0 THEN @
                           ELSE (@ \ {key})
                                \cup {[key EXCEPT !.admitted = @ + 1]}]
       /\ last' = Called("receive_alert", AlertArg(rq),
                         [dropped |-> dropped, saved |-> ~dropped,
                          status |-> IF dropped THEN "filtered_or_throttled"
                                     ELSE "received"])
       /\ UNCHANGED <<users, now, ticks, rand, accepted, issued, reqs>>

\* Redis raises on SETEX: except Exception -> 500, nothing is saved
AlertFails(r) ==
    LET rq == guard.flight[r]
    IN /\ rq.stage = "decide"
       /\ ~rq.is_duplicate
       /\ ~OverLimit(rq.current_minute_count)
       /\ guard' = [guard EXCEPT !.flight[r] = NoAlert]
       /\ last' = [Called("receive_alert", AlertArg(rq),
                          [dropped |-> FALSE, saved |-> FALSE,
                           status |-> "error"])
                   EXCEPT !.status = 500]
       /\ UNCHANGED <<users, now, ticks, rand, accepted, issued, reqs>>

\* the clock of the alert service at the start: the start of an hour, or
\* late in its first minute
GuardClocks == {0, 45}

InitGuard ==
    /\ users = <<>>
    /\ now = 0
    /\ ticks = 0
    /\ rand = 0
    /\ accepted = {}
    /\ issued = {}
    /\ guard \in {[NoGuard EXCEPT !.clock = c] : c \in GuardClocks}
    /\ reqs = [r \in Slots |-> Idle]
    /\ last = NoLast

\* two alerts, each sent again and again by two handlers in flight
\* together, the clock moving within a minute, to the next one and by an
\* hour
DedupeKeys == {1, 2}
DedupeSteps == {30, 60, 3600}

NextDedupe ==
    \/ \E d \in DedupeSteps : GuardTick(d)
    \/ \E r \in Slots : \E key \in DedupeKeys :
           AlertPipeline(r, key, MaxRepeats)
    \/ \E r \in Slots : AlertDecide(r)
    \/ \E r \in Slots : AlertFails(r)

SpecDedupe == InitGuard /\ [][NextDedupe]_vars

\* bursts of alerts, no two of them alike, by two handlers in flight
\* together, the clock moving by whole minutes between the bursts
ThrottleSteps == {60, 3600}

TickBetweenBursts(d) ==
    /\ \A r \in Slots : guard.flight[r].stage = "idle"
    /\ GuardTick(d)

NextThrottle ==
    \/ \E d \in ThrottleSteps : TickBetweenBursts(d)
    \/ \E r \in Slots : AlertPipeline(r, FreshKey, MaxAlerts)
    \/ \E r \in Slots : AlertDecide(r)

SpecThrottle == InitGuard /\ [][NextThrottle]_vars

\* ================================================================ claims
\* the handler that just returned was login_with_email, and the store
\* answered all its statements
LoginReturned == last.op = "login" /\ last.status # 500

\* that login was given a password the stored hash does not accept
WrongPassword == PasswordRejected(last.before, last.password)

\* no other handler committed to the row between this handler's SELECT and
\* its final step: the call ran after, not during, the calls before it
RanAlone == last.snap = last.before

\* C1: on a verified, active, unlocked account the k-th consecutive wrong
\* password (counter k - 1 before the call) is answered 401 "Invalid email
\* or password" and leaves the account unlocked with the counter at k while
\* k < 5; the 5th is answered 403 and leaves is_locked = true and
\* locked_until = now + 15 minutes.
C1_WrongPasswordsLockAtFive ==
    ( /\ LoginReturned /\ RanAlone /\ WrongPassword
      /\ last.before # NoRow
      /\ last.before.email_verified /\ last.before.is_active
      /\ ~last.before.is_locked
      /\ last.before.failed_login_attempts < 5 )
    => LET k == last.before.failed_login_attempts + 1
       IN IF k < 5
          THEN /\ last.status = 401
               /\ last.detail = "Invalid email or password"
               /\ ~last.after.is_locked
               /\ last.after.failed_login_attempts = k
          ELSE /\ last.status = 403
               /\ last.detail = "Too many failed attempts. Account locked for 15 minutes."
               /\ last.after.is_locked
               /\ last.after.failed_login_attempts = 5
               /\ last.after.locked_until = last.at + 15

\* C1 witness: a 5th consecutive wrong password has just locked the account
C1_Witness ==
    /\ LoginReturned /\ RanAlone /\ WrongPassword
    /\ last.before.email_verified /\ last.before.is_active
    /\ ~last.before.is_locked
    /\ last.before.failed_login_attempts = 4
    /\ last.after.is_locked
    /\ last.status = 403

\* C2 (as claimed): every wrong-password login on an unlocked account adds
\* one to the committed failed_login_attempts, whatever other logins are in
\* flight, and the account is locked exactly when the total reaches 5.
C2_NoLostIncrement ==
    ( /\ LoginReturned /\ WrongPassword
      /\ last.before # NoRow
      /\ last.before.email_verified /\ last.before.is_active
      /\ ~last.snap.is_locked /\ ~last.before.is_locked )
    => /\ last.after.failed_login_attempts = last.before.failed_login_attempts + 1
       /\ last.after.is_locked <=> last.after.failed_login_attempts >= 5

\* C3: a login made while is_locked = true and now < locked_until is
\* answered 403 "Account is temporarily locked. Please try again later."
\* whatever the password, gets no bearer token and leaves the row as it was.
C3_LockedRejectsEveryLogin ==
    ( /\ last.op = "login"
      /\ last.snap # NoRow /\ last.snap.is_locked
      /\ last.snap.locked_until # NULL /\ last.at < last.snap.locked_until )
    => /\ last.status = 403
       /\ last.detail = "Account is temporarily locked. Please try again later."
       /\ last.bearer = NoBearer
       /\ last.after = last.before
       /\ last.after.failed_login_attempts = last.snap.failed_login_attempts
       /\ last.after.is_locked
       /\ last.after.locked_until = last.snap.locked_until
       /\ last.after.last_login = last.snap.last_login

\* C3 witness: the correct password was refused inside the lock window,
\* after time had passed
C3_Witness ==
    /\ last.op = "login" /\ last.status = 403
    /\ last.before.is_locked
    /\ last.before.locked_until # NULL /\ last.at < last.before.locked_until
    /\ verify_password(last.password, last.before.hashed_password)
    /\ last.at > 0

\* C4 (as claimed): a wrong password on a locked account whose locked_until
\* has passed counts as the first failure: 401, counter 1, not locked again.
C4_UnlockThenFirstFailure ==
    ( /\ LoginReturned /\ RanAlone /\ WrongPassword
      /\ last.before # NoRow
      /\ last.before.email_verified /\ last.before.is_active
      /\ last.before.is_locked
      /\ last.before.locked_until # NULL /\ last.before.locked_until <= last.at )
    => /\ last.status = 401
       /\ last.after.failed_login_attempts = 1
       /\ ~last.after.is_locked

\* C5: on a locked, verified, active account whose locked_until has passed,
\* a login with the correct password is answered 200 with a bearer token
\* for the account and leaves is_locked = false and the counter at 0.
C5_ExpiredLockIsLifted ==
    ( /\ LoginReturned
      /\ last.snap # NoRow
      /\ last.snap.email_verified /\ last.snap.is_active
      /\ last.snap.is_locked
      /\ last.snap.locked_until # NULL /\ last.snap.locked_until <= last.at
      /\ verify_password(last.password, last.snap.hashed_password) )
    => /\ last.status = 200
       /\ verify_token_ok(last.bearer, last.at)
       /\ last.bearer.sub = last.snap.username
       /\ ~last.after.is_locked
       /\ last.after.failed_login_attempts = 0

\* C5 witness: such a login has just succeeded at the very end of the window
C5_Witness ==
    /\ LoginReturned /\ last.status = 200
    /\ last.before.is_locked
    /\ last.before.locked_until = last.at
    /\ ~last.after.is_locked

\* C6 (as claimed): a verification or reset token is accepted at most once,
\* also when the requests presenting it overlap: no request is answered 200
\* for a token that another request has already been answered 200 for.
C6_AcceptedAtMostOnce ==
    (last.op \in {"verify", "reset"} /\ last.status = 200) => ~last.again

\* C7: verify_email with the token stored on an unverified row, at or
\* before its expiry, sets email_verified, clears the token and its expiry
\* and returns a bearer token that verify_token accepts with the row's
\* username as subject; a verify_email call made after the token was
\* accepted is answered 400.
C7_VerifyConsumesToken ==
    /\ ( /\ last.op = "verify" /\ last.status # 500
         /\ last.before # NoRow /\ ~last.before.email_verified
         /\ last.before.email_verification_token = last.token
         /\ last.at <= last.before.email_verification_expires )
       => /\ last.status = 200
          /\ last.after.email_verified
          /\ last.after.email_verification_token = NoToken
          /\ last.after.email_verification_expires = NULL
          /\ verify_token_ok(last.bearer, last.at)
          /\ last.bearer.sub = last.before.username
    /\ (last.op = "verify" /\ last.reused)
       => /\ last.status = 400
          /\ last.bearer = NoBearer

\* C7 witness: a token was accepted at the very minute of its expiry, and
\* the table holds the verified row
C7_Witness ==
    /\ last.op = "verify" /\ last.status = 200
    /\ last.before.email_verification_token = last.token
    /\ last.at = last.before.email_verification_expires
    /\ last.after.email_verified

\* C8: verify_email with a token whose expiry is earlier than now is
\* answered 400 and changes nothing: the row stays unverified with its token
\* and expiry, and no bearer token is issued.
C8_ExpiredVerificationChangesNothing ==
    ( /\ last.op = "verify"
      /\ last.snap # NoRow
      /\ last.snap.email_verification_expires < last.at )
    => /\ last.status = 400
       /\ last.bearer = NoBearer
       /\ last.after = last.before
       /\ RowOf(users, last.snap.id) = last.before
       /\ (last.snap = last.before =>
             /\ ~last.after.email_verified
             /\ last.after.email_verification_token = last.token
             /\ last.after.email_verification_expires = last.snap.email_verification_expires)

\* C8 witness: the stored token was presented after its expiry and refused
C8_Witness ==
    /\ last.op = "verify" /\ last.status = 400
    /\ last.before.email_verification_token = last.token
    /\ last.before.email_verification_expires < last.at
    /\ ~last.after.email_verified

\* C9: the token and the change it authorizes are committed together: no
\* step, a failed or abandoned handler's included, clears a reset token
\* without replacing the password hash or replaces the hash while a reset
\* token stays stored, and none clears a verification token without setting
\* email_verified or sets email_verified while the token stays stored.
C9_Step ==
    \A i \in 1..Len(users') :
       LET old == RowOf(users, i)
           new == users'[i]
       IN /\ (old.password_reset_token # NoToken /\ new.password_reset_token = NoToken)
                => new.hashed_password # old.hashed_password
          /\ new.hashed_password # old.hashed_password
                => (i \in 1..Len(users) =>
                      /\ new.password_reset_token = NoToken
                      /\ new.password_reset_expires = NULL)
          /\ (old.email_verification_token # NoToken
                /\ new.email_verification_token = NoToken)
                => new.email_verified
          /\ (~old.email_verified /\ new.email_verified)
                => /\ new.email_verification_token = NoToken
                   /\ new.email_verification_expires = NULL

C9_TokenAndChangeTogether == [][C9_Step]_vars

\* C9 witness: reset_password has just used up the stored token, and
\* the row holds the new hash and no token
C9_Witness ==
    /\ last.op = "reset" /\ last.status = 200
    /\ last.before.password_reset_token = last.token
    /\ last.after.password_reset_token = NoToken
    /\ last.after.hashed_password # last.before.hashed_password
    /\ \E i \in 1..Len(users) : users[i].email_verified /\ users[i].last_password_change # NULL

\* reset_password was given the reset token now stored, unexpired, and the
\* store answered
ResetWithCurrentToken ==
    /\ last.op = "reset" /\ last.status # 500
    /\ last.before # NoRow
    /\ last.before.password_reset_token = last.token
    /\ last.at <= last.before.password_reset_expires

\* what reset_password leaves behind: the new hash, no token, counter 0,
\* no lock
ResetApplied ==
    /\ last.status = 200
    /\ verify_password(last.password, last.after.hashed_password)
    /\ last.after.hashed_password # last.before.hashed_password
    /\ last.after.password_reset_token = NoToken
    /\ last.after.password_reset_expires = NULL
    /\ last.after.failed_login_attempts = 0
    /\ ~last.after.is_locked

\* a login made on the row as reset_password left it (nothing has touched it
\* since: counter 0, no lock flag, no token, updated at the password change)
LoginRightAfterReset ==
    /\ LoginReturned /\ RanAlone
    /\ last.before # NoRow
    /\ last.before.last_password_change # NULL
    /\ last.before.updated_at = last.before.last_password_change
    /\ last.before.failed_login_attempts = 0
    /\ ~last.before.is_locked
    /\ last.before.password_reset_token = NoToken

\* C10 (as claimed): reset_password with the current unexpired token
\* replaces the hash, clears the token and its expiry and sets the counter
\* to 0 and is_locked to false; right afterwards login with the new password
\* succeeds, also with locked_until still ahead, and with another password
\* fails.
C10_ResetThenLogin ==
    /\ ResetWithCurrentToken => ResetApplied
    /\ LoginRightAfterReset =>
          IF verify_password(last.password, last.before.hashed_password)
          THEN last.status = 200 /\ verify_token_ok(last.bearer, last.at)
          ELSE last.status = 401 /\ last.bearer = NoBearer

\* C10 (amended): the same, for an account that is active.
C10_ResetThenLoginWhenActive ==
    /\ ResetWithCurrentToken => ResetApplied
    /\ (LoginRightAfterReset /\ last.before.is_active) =>
          IF verify_password(last.password, last.before.hashed_password)
          THEN last.status = 200 /\ verify_token_ok(last.bearer, last.at)
          ELSE last.status = 401 /\ last.bearer = NoBearer

\* C10 witness: the new password has just logged in to an account that a
\* reset unlocked while its locked_until was still ahead
C10_Witness ==
    /\ LoginRightAfterReset /\ last.status = 200
    /\ last.before.is_active
    /\ last.before.locked_until # NULL /\ last.at < last.before.locked_until
    /\ last.before.hashed_password.pw # "pw1"

\* C11: reset_password with a token that no row holds (unknown, or already
\* used and so cleared) or whose expiry is earlier than now is answered 400
\* and changes no row: hash, lock flag, counter and stored token stay.
C11_Step ==
    ( /\ last'.op = "reset"
      /\ \/ last'.snap = NoRow
         \/ last'.snap.password_reset_expires < last'.at
         \/ last'.reused )
    => /\ last'.status = 400
       /\ last'.detail \in {"Invalid or expired reset link",
                            "Reset link has expired. Please request a new one."}
       /\ last'.bearer = NoBearer
       /\ last'.after = last'.before
       /\ users' = users

C11_BadResetTokenChangesNothing == [][C11_Step]_vars

\* C11 witness: the stored reset token was presented after its expiry and
\* refused, and the row still holds it with the old hash
C11_Witness ==
    /\ last.op = "reset" /\ last.status = 400
    /\ last.snap # NoRow
    /\ last.snap.password_reset_expires < last.at
    /\ RowOf(users, last.snap.id).password_reset_token = last.token
    /\ RowOf(users, last.snap.id).hashed_password = last.snap.hashed_password

\* C12: register_user for an email that has an unverified account adds no
\* row, stores a fresh verification token with expiry now + 24 hours in
\* place of the stored one, hands a verification email with the new token to
\* the dispatcher and returns success.
C12_ResendKeepsOneRow ==
    ( /\ last.op = "register" /\ ~last.failed
      /\ last.snap # NoRow /\ ~last.snap.email_verified )
    => /\ last.status = 200
       /\ Len(users) = last.rows
       /\ \A i, j \in 1..Len(users) : users[i].email = users[j].email => i = j
       /\ last.after.id = last.snap.id
       /\ last.after.email_verification_token # NoToken
       /\ last.after.email_verification_token # last.snap.email_verification_token
       /\ last.after.email_verification_token # last.before.email_verification_token
       /\ last.after.email_verification_token \notin accepted
       /\ last.after.email_verification_expires = last.at + 24 * 60
       /\ last.mail.kind = "verification"
       /\ last.mail.to = last.email
       /\ last.mail.token = last.after.email_verification_token
       /\ RowOf(users, last.snap.id) = last.after

\* C12 witness: a second register_user for the same unverified address has
\* just replaced the token, later than the first, and the table has one row
C12_Witness ==
    /\ last.op = "register" /\ last.status = 200
    /\ last.snap # NoRow /\ ~last.snap.email_verified
    /\ last.at > 0
    /\ last.snap.email_verification_expires < last.after.email_verification_expires
    /\ Len(users) = 1

\* C13: register_user for an email whose account is verified is answered
\* 400 "An account with this email already exists", adds no row, sends no
\* email and leaves every row as it was.
C13_Step ==
    ( /\ last'.op = "register"
      /\ last'.snap # NoRow /\ last'.snap.email_verified )
    => /\ last'.status = 400
       /\ last'.detail = "An account with this email already exists"
       /\ last'.mail = NoMail
       /\ last'.bearer = NoBearer
       /\ users' = users

C13_VerifiedEmailIsRefused == [][C13_Step]_vars

\* C13 witness: an address registered and verified in this behaviour has
\* just been refused
C13_Witness ==
    /\ last.op = "register" /\ last.status = 400
    /\ last.snap.email_verified
    /\ last.snap.full_name = "Al"
    /\ RowOf(users, last.snap.id) = last.snap

\* C14 (as claimed): register_user gives the same success response whether
\* it created the account or found an unverified one: the message returned
\* for an existing unverified account is the one returned for a new account.
C14_SameSuccessResponse ==
    (last.op = "register" /\ last.status = 200)
    => last.detail = RegisterCreatedMessage

\* the username is the smallest free candidate over the table: the local
\* part, or the local part followed by the smallest positive counter free
SmallestFreeUsername(tbl, local, username) ==
    \/ username = local /\ ~UsernameTaken(tbl, local)
    \/ /\ UsernameTaken(tbl, local)
       /\ \E k \in 1..(Len(tbl) + 1) :
             /\ username = local \o Decimal(k)
             /\ ~UsernameTaken(tbl, username)
             /\ \A j \in 1..(k - 1) : UsernameTaken(tbl, local \o Decimal(j))

\* C15: whatever register_user calls have run or are in flight, no two rows
\* share a username and no two share an email, and the row a call has just
\* created has as username the email's local part or, that taken, the local
\* part followed by the smallest positive counter that was free.
C15_UniqueUsernameAndEmail ==
    /\ \A i, j \in 1..Len(users) :
          (users[i].username = users[j].username \/ users[i].email = users[j].email)
             => i = j
    /\ ( /\ last.op = "register" /\ last.status = 200
         /\ last.snap = NoRow )
       => /\ Len(users) = last.rows + 1
          /\ users[Len(users)] = last.after
          /\ last.after.email = last.email
          /\ SmallestFreeUsername(SubSeq(users, 1, Len(users) - 1),
                                  last.email.local, last.after.username)

\* C15 witness: the second of two addresses with the same local part has
\* just been registered under the local part followed by 1, both rows
\* created in this behaviour
C15_Witness ==
    /\ last.op = "register" /\ last.status = 200 /\ last.snap = NoRow
    /\ Len(users) = 2
    /\ users[1].username = <<"a">> /\ ~users[1].email_verified
    /\ users[2].username = <<"a", "1">>
    /\ users[1].email # users[2].email

\* C16: forgot_password answers success with the one generic message for
\* every address and every table: no account, an unverified account, a
\* verified one, and also when the store or the email dispatcher fails.
C16_ForgotAlwaysSameResponse ==
    last.op = "forgot"
    => /\ last.status = 200
       /\ last.detail = ForgotMessage
       /\ last.bearer = NoBearer

\* C16 witness: the store failed under a forgot_password for a verified
\* account, after other calls were answered
C16_Witness ==
    /\ last.op = "forgot" /\ last.failed
    /\ last.snap # NoRow /\ last.snap.email_verified
    /\ last.status = 200
    /\ rand > 0

\* the row differs from `old` in the reset token, its expiry and updated_at
\* only
OnlyResetRequestChanged(old, new) ==
    new = [old EXCEPT !.password_reset_token = new.password_reset_token,
                      !.password_reset_expires = new.password_reset_expires,
                      !.updated_at = new.updated_at]

\* C17: forgot_password, the store answering, stores a fresh reset token
\* with expiry now + 1 hour and hands a reset email with it to the
\* dispatcher exactly when the address has an account with email_verified;
\* for no account or an unverified one it changes no row and sends no email.
C17_Step ==
    (last'.op = "forgot" /\ ~last'.failed)
    => IF last'.snap # NoRow /\ last'.snap.email_verified
       THEN /\ last'.after.password_reset_token # NoToken
            /\ last'.after.password_reset_token # last'.before.password_reset_token
            /\ last'.after.password_reset_token \notin accepted
            /\ last'.after.password_reset_expires = last'.at + 60
            /\ OnlyResetRequestChanged(last'.before, last'.after)
            /\ users' = Put(users, last'.snap.id, last'.after)
            /\ last'.mail.kind = "reset"
            /\ last'.mail.to = last'.email
            /\ last'.mail.token = last'.after.password_reset_token
       ELSE /\ users' = users
            /\ last'.after = last'.before
            /\ last'.mail = NoMail

C17_ResetTokenOnlyForVerified == [][C17_Step]_vars

\* C17 witness: a reset token has just been stored, later than time 0, for
\* an account registered and verified in this behaviour
C17_Witness ==
    /\ last.op = "forgot" /\ ~last.failed
    /\ last.snap.email_verified /\ last.snap.full_name = "Al"
    /\ last.at > 0
    /\ RowOf(users, last.snap.id).password_reset_expires = last.at + 60
    /\ last.mail.kind = "reset"

\* C18: login_with_email checks, in this order, unknown email, unverified,
\* locked, disabled, password, and the first check that fails decides the
\* answer: a locked (unexpired) and disabled account is answered "locked",
\* and an unverified or disabled account is answered so whatever the
\* password, with failed_login_attempts not incremented.
C18_FirstFailingCheckDecides ==
    (last.op = "login" /\ ~last.failed /\ RanAlone)
    => LET s == last.snap
       IN IF s = NoRow
          THEN last.status = 401 /\ last.detail = "Invalid email or password"
          ELSE IF ~s.email_verified
          THEN /\ last.status = 403
               /\ last.detail = "Please verify your email before logging in"
               /\ last.after = last.before
          ELSE IF s.is_locked /\ s.locked_until # NULL /\ s.locked_until > last.at
          THEN /\ last.status = 403
               /\ last.detail = "Account is temporarily locked. Please try again later."
               /\ last.after = last.before
          ELSE IF ~s.is_active
          THEN /\ last.status = 403
               /\ last.detail = "Account is disabled"
               /\ last.after.failed_login_attempts <= last.before.failed_login_attempts
               /\ ~s.is_locked => last.after = last.before
          ELSE /\ last.status \in {200, 401, 403}
               /\ last.detail \in {"", "Invalid email or password",
                                   "Too many failed attempts. Account locked for 15 minutes."}

\* C18 witness: an account both locked, the window still open, and disabled
\* has just been answered "locked" for a wrong password
C18_Witness ==
    /\ last.op = "login"
    /\ last.snap.is_locked /\ ~last.snap.is_active
    /\ last.at < last.snap.locked_until
    /\ WrongPassword
    /\ last.status = 403
    /\ last.detail = "Account is temporarily locked. Please try again later."
    /\ last.at > 0

\* C19: login_with_email gives the same answer, 401 "Invalid email or
\* password", for an email without an account and for a verified, active,
\* unlocked account given a wrong password while its failures stay below 5.
C19_UnknownEmailLikeWrongPassword ==
    ( /\ last.op = "login" /\ ~last.failed
      /\ \/ last.snap = NoRow
         \/ /\ last.snap.email_verified /\ last.snap.is_active
            /\ ~last.snap.is_locked
            /\ PasswordRejected(last.snap, last.password)
            /\ last.snap.failed_login_attempts + 1 < 5 )
    => /\ last.status = 401
       /\ last.detail = "Invalid email or password"
       /\ last.bearer = NoBearer

\* C19 witness: an email without an account has just been answered 401, in
\* a behaviour in which a wrong password for the existing account was too
C19_Witness ==
    /\ last.op = "login" /\ last.snap = NoRow
    /\ last.status = 401
    /\ \E i \in 1..Len(users) :
          /\ users[i].failed_login_attempts \in 1..4
          /\ ~users[i].is_locked

\* C20 (as claimed): after a successful password login, by login_with_email
\* or by authenticate_user, and after a successful reset_password, the
\* account's failed_login_attempts is 0.
C20_SuccessLeavesCounterZero ==
    (last.op \in {"login", "authenticate", "reset"} /\ last.status = 200)
    => last.after.failed_login_attempts = 0

\* ---------------------------------------------------------------- C21
\* verify_token ran on a token that create_access_token had issued
VerifiedIssued ==
    last.op = "verify_token" /\ last.arg.issued

\* the issuing call passed a subject, a role list and a ttl above zero, and
\* the token is presented before now + ttl of the issuing call
RoundTripCase ==
    /\ VerifiedIssued
    /\ DOMAIN last.arg.data = {"sub", "scopes"}
    /\ last.arg.expires_delta # NoDelta
    /\ last.arg.expires_delta[1] > 0
    /\ last.at < last.arg.issued_at + last.arg.expires_delta[1]

\* C21: a token issued for a subject and a role list with a ttl above zero
\* and verified before its expiry yields TokenData with username = subject
\* and scopes = the role list.
C21_RoundTrip ==
    RoundTripCase =>
        /\ last.ret.ok
        /\ last.ret.username = last.arg.data.sub
        /\ last.ret.scopes = last.arg.data.scopes

\* a token with two roles comes back some minutes after it was issued
C21_Witness ==
    /\ RoundTripCase
    /\ last.at > last.arg.issued_at
    /\ Len(last.arg.data.scopes) = 2
    /\ last.ret.ok
    /\ last.ret.scopes = last.arg.data.scopes

\* ---------------------------------------------------------------- C22
\* the presented token is malformed, signed under another key, past its exp,
\* or without a sub claim
MustBeRejected ==
    /\ last.op = "verify_token"
    /\ \/ "sig" \notin DOMAIN last.arg.token
       \/ last.arg.token.sig # SECRET_KEY
       \/ "exp" \in DOMAIN last.arg.token /\ last.arg.token.exp < last.at
       \/ "sub" \notin DOMAIN last.arg.token

\* C22: verify_token answers every malformed, wrongly signed, expired or
\* subject-less token with the 401 credentials error and no identity.
C22_FailsClosed ==
    MustBeRejected =>
        /\ ~last.ret.ok
        /\ last.ret.status = 401
        /\ last.ret.detail = "Could not validate credentials"
        /\ last.ret.username = <<>>

\* a correctly signed token with a subject is refused after its exp
C22_Witness ==
    /\ VerifiedIssued
    /\ "sub" \in DOMAIN last.arg.token
    /\ last.arg.token.sig = SECRET_KEY
    /\ last.arg.token.exp < last.at
    /\ last.ret.status = 401

\* ---------------------------------------------------------------- C23
\* C23: the exp of an issued token is now + ttl for every supplied ttl,
\* zero and negative included; the configured default applies only when no
\* ttl is supplied.
C23_ExpiryFollowsTtl ==
    last.op = "create_access_token" =>
        last.ret.exp =
            IF last.arg.expires_delta = NoDelta
            THEN last.at + ACCESS_TOKEN_EXPIRE_MINUTES
            ELSE last.at + last.arg.expires_delta[1]

\* ---------------------------------------------------------------- C24
\* a handler or route answered with a bearer token
IssuedToken ==
    last.status = 200 /\ last.bearer # NoBearer

\* C24: every bearer token issued, at every issuance site, carries sub equal
\* to the username of a local user, a scopes role list, and exp.
C24_IssuedTokenNamesLocalUser ==
    IssuedToken =>
        /\ {"sub", "scopes", "exp"} \subseteq DOMAIN last.bearer
        /\ \E i \in 1..Len(users) : users[i].username = last.bearer.sub

\* ---------------------------------------------------------------- C28
\* validate_token ran on a token made out for another client
OtherAudience ==
    /\ last.op = "validate_token"
    /\ last.arg.token.aud # GOOGLE_CLIENT_ID

\* C28: validate_token returns no claims for a token whose audience is not
\* the configured client id, on the ID-token path and on the tokeninfo path
\* alike, and an enabled service answers such a token with 401; a disabled
\* service returns no claims for any token.
C28_AudienceIsChecked ==
    /\ OtherAudience =>
          /\ last.ret.claims = NoClaims
          /\ last.arg.enabled => last.ret.status = 401
    /\ (last.op = "validate_token" /\ ~last.arg.enabled) =>
          /\ last.ret.claims = NoClaims
          /\ last.ret.status = 503

\* an access token that Google knows, made out for another client, is
\* refused on the tokeninfo path
C28_Witness ==
    /\ OtherAudience
    /\ last.arg.enabled /\ last.arg.reachable
    /\ last.arg.token.kind = "access" /\ last.arg.token.genuine
    /\ last.ret.status = 401
    /\ last.ret.cause = "Token audience mismatch"

\* ---------------------------------------------------------------- C29
\* the rows of the table that hold the email
RowsWithEmail(email) ==
    {i \in 1..Len(users) : users[i].email = email}

\* an OAuth login succeeded with the email of a verified password account
OAuthLoginOfPasswordUser ==
    /\ last.op = "google_login"
    /\ last.status = 200
    /\ \E i \in RowsWithEmail(last.ret.claims.email) :
          users[i].email_verified /\ users[i].hashed_password # NoHash

\* C29: after a successful OAuth login with the email of a verified
\* password account there is exactly one row for that email, it holds its
\* password hash and the provider and subject id of the claim, and the
\* issued token names that user.
C29_OAuthLoginLinksIdentity ==
    OAuthLoginOfPasswordUser =>
        /\ Cardinality(RowsWithEmail(last.ret.claims.email)) = 1
        /\ \A i \in RowsWithEmail(last.ret.claims.email) :
              /\ users[i].hashed_password # NoHash
              /\ users[i].oauth_provider = last.ret.claims.provider
              /\ users[i].oauth_provider_id = last.ret.claims.user_id
              /\ last.bearer.sub = users[i].username

\* ---------------------------------------------------------------- C25
\* the principal-header method resolved nobody: no header, or a header
\* that is the oauth_provider_id of no row
HeaderResolvesNobody ==
    \/ last.arg.principal = NoPrincipal
    \/ /\ last.arg.db_ok
       /\ \A i \in 1..Len(users) :
             users[i].oauth_provider_id # last.arg.principal

\* the request carries a bearer token signed with the key, not past its
\* exp, whose sub is the username of row i
ValidBearerFor(i) ==
    /\ last.arg.credentials # NoCredentials
    /\ LET token == last.arg.credentials[1]
       IN /\ {"sub", "exp", "sig"} \subseteq DOMAIN token
          /\ token.sig = SECRET_KEY
          /\ token.exp >= last.at
          /\ token.sub = users[i].username

\* C25: when the principal header resolves nobody and the request carries a
\* valid bearer token of an existing user, get_current_user_id returns
\* that user's id.
C25_FirstSuccessWins ==
    (last.op = "get_current_user_id" /\ last.arg.db_ok
        /\ HeaderResolvesNobody) =>
        \A i \in 1..Len(users) :
            ValidBearerFor(i) => last.ret.user_id = users[i].id

\* ---------------------------------------------------------------- C26
\* no bearer credential, or one that is no JWT, is signed with another
\* key, is past its exp, or names a username that is in no row
BadCredential ==
    \/ last.arg.credentials = NoCredentials
    \/ LET token == last.arg.credentials[1]
       IN \/ ~({"sub", "exp", "sig"} \subseteq DOMAIN token)
          \/ token.sig # SECRET_KEY
          \/ token.exp < last.at
          \/ \A i \in 1..Len(users) : users[i].username # token.sub

\* C26: with no credential or a bad bearer token, and no user resolved by
\* the principal header, get_current_user_id returns None and does not
\* raise; require_user raises 401 "Authentication required" exactly when
\* get_current_user_id returned no user id, and otherwise returns that id.
C26_BadCredentialIsAnonymous ==
    /\ (last.op = "get_current_user_id" /\ HeaderResolvesNobody
            /\ BadCredential) =>
          ~last.ret.raised /\ last.ret.user_id = 0
    /\ (last.op = "require_user" /\ ~last.arg.resolved.raised) =>
          IF last.arg.resolved.user_id = 0
          THEN /\ last.ret.raised
               /\ last.ret.status = 401
               /\ last.ret.detail = "Authentication required"
          ELSE /\ ~last.ret.raised
               /\ last.ret.user_id = last.arg.resolved.user_id

\* require_user refuses a request whose correctly signed token has expired
C26_Witness ==
    /\ last.op = "require_user"
    /\ last.arg.principal = NoPrincipal
    /\ last.arg.credentials # NoCredentials
    /\ "sig" \in DOMAIN last.arg.credentials[1]
    /\ last.arg.credentials[1].sig = SECRET_KEY
    /\ last.arg.credentials[1].exp < last.at
    /\ ~last.arg.resolved.raised
    /\ last.ret.status = 401

\* ---------------------------------------------------------------- C27
\* the roles of a list, as a set
RoleSet(roles) == {roles[i] : i \in 1..Len(roles)}

\* C27: check_permissions admits the user exactly when the user's roles and
\* the required roles have a role in common; otherwise it answers 403
\* "Not enough permissions", an empty list of required roles included.
C27_AdmitsIffRolesIntersect ==
    last.op = "check_permissions" =>
        /\ last.ret.admitted <=>
              RoleSet(last.arg.roles) \cap RoleSet(last.arg.required_roles)
                  # {}
        /\ ~last.ret.admitted =>
              /\ last.ret.status = 403
              /\ last.ret.detail = "Not enough permissions"

\* a user with roles is refused when no role is required
C27_Witness ==
    /\ last.op = "check_permissions"
    /\ last.arg.required_roles = <<>>
    /\ last.arg.roles # <<>>
    /\ last.ret.status = 403

\* ---------------------------------------------------------------- C30
\* a handler handed a message to the dispatcher before it returned
MailWasHandedOver == last.mail.kind # ""

\* the success message of the branch that sent the mail
SuccessMessageOfBranch ==
    IF last.mail.kind = "reset" THEN ForgotMessage
    ELSE IF last.before = NoRow THEN RegisterCreatedMessage
    ELSE RegisterResentMessage

\* the token of the mail in the row the handler committed
CommittedToken ==
    IF last.mail.kind = "reset"
    THEN RowOf(users, last.after.id).password_reset_token
    ELSE RowOf(users, last.after.id).email_verification_token

\* C30: whether the dispatcher reports success or failure, register_user
\* and forgot_password return the success response of their branch and
\* leave the committed row with the token of the mail.
C30_DispatchFailureChangesNothing ==
    MailWasHandedOver =>
        /\ last.status = 200
        /\ last.detail = SuccessMessageOfBranch
        /\ RowOf(users, last.after.id) = last.after
        /\ CommittedToken = last.mail.token

\* a registration whose verification mail could not be sent
C30_Witness ==
    /\ MailWasHandedOver
    /\ ~last.mail.delivered
    /\ last.op = "register"
    /\ last.before = NoRow
    /\ last.status = 200
    /\ CommittedToken = last.mail.token

\* ---------------------------------------------------------------- C31
\* login_with_email read a row that is locked without a locked_until
LoginOfManualLock ==
    /\ LoginReturned
    /\ last.snap.is_locked
    /\ last.snap.locked_until = NULL

\* C31: login_with_email leaves is_locked set on an account that is locked
\* without a locked_until, and issues it no bearer token.
C31_ManualLockStays ==
    LoginOfManualLock =>
        /\ RowOf(users, last.snap.id).is_locked
        /\ last.bearer = NoBearer
        /\ last.status # 200

\* ---------------------------------------------------------------- C32
\* POST /api/auth/login answered with a bearer token
AuthenticateIssuedToken ==
    /\ last.op = "authenticate"
    /\ last.status = 200
    /\ last.bearer # NoBearer

\* C32: POST /api/auth/login issues no bearer token for an account that
\* login_with_email rejects as unverified or as locked with locked_until
\* in the future.
C32_AuthenticateNotMorePermissive ==
    AuthenticateIssuedToken =>
        /\ last.before.email_verified
        /\ ~(last.before.is_locked /\ StillLocked(last.before, last.at))

\* ---------------------------------------------------------------- C33
\* a gate ran on a request whose valid bearer token names the disabled
\* user of row i
GateSawTokenOfDisabled(i) ==
    /\ last.op \in {"get_current_user", "get_current_user_id", "require_user"}
    /\ ValidBearerFor(i)
    /\ ~users[i].is_active

\* C33: a bearer token whose subject is a disabled user is refused by
\* get_current_user with 401 and is not resolved to that user's id by
\* get_current_user_id or require_user.
C33_DisabledUserIsRejected ==
    \A i \in 1..Len(users) :
        GateSawTokenOfDisabled(i) =>
            IF last.op = "get_current_user"
            THEN last.ret.raised /\ last.ret.status = 401
            ELSE last.ret.user_id # users[i].id

\* ---------------------------------------------------------------- C34
\* C34: webhook_auth_required answers 401 to every request whose bearer
\* credential is not the configured SENTRY_WEBHOOK_TOKEN and admits a
\* request only when the credential equals it.
C34_WebhookTokenIsChecked ==
    last.op = "webhook_auth_required" =>
        IF last.arg.credentials = <<SENTRY_WEBHOOK_TOKEN>>
        THEN ~last.ret.raised
        ELSE last.ret.raised /\ last.ret.status = 401

\* ---------------------------------------------------------------- C35
\* register_user returned from its branch for an unverified account
ResendReturned ==
    /\ last.op = "register"
    /\ last.status = 200
    /\ last.before # NoRow

\* C35: a registration for an address whose account is unverified changes
\* only the verification token, its expiry and updated_at; the password
\* hash, the name and the username stay, so the password that logs in
\* after verification is the one of the first registration.
C35_RetryKeepsFirstPassword ==
    /\ ResendReturned =>
          /\ last.after =
                [last.before EXCEPT
                    !.email_verification_token =
                        last.after.email_verification_token,
                    !.email_verification_expires =
                        last.after.email_verification_expires,
                    !.updated_at = last.after.updated_at]
          /\ RowOf(users, last.before.id) = last.after
    /\ (LoginReturned /\ last.status = 200) => last.password = "pw1"

\* a login with the first password succeeds on an account that was
\* verified with the token of a retry
C35_Witness ==
    /\ LoginReturned
    /\ last.status = 200
    /\ last.password = "pw1"
    /\ accepted # {}
    /\ \A t \in accepted : t >= 2

\* ---------------------------------------------------------------- C36
\* the token of its type that the row held when the handler committed
StoredTokenAtCommit ==
    IF last.op = "verify" THEN last.before.email_verification_token
    ELSE last.before.password_reset_token

\* C36: once register_user or forgot_password has stored a new token, no
\* verify_email or reset_password request is answered 200 for an earlier
\* token of that type: a request is never accepted while the row holds a
\* different token.
C36_OnlyNewestTokenAccepted ==
    (last.op \in {"verify", "reset"} /\ last.status = 200) =>
        StoredTokenAtCommit \in {last.token, NoToken}

\* ---------------------------------------------------------------- C37
\* C37: reset_password never answers 200 for a value that was stored as an
\* email-verification token, and verify_email never answers 200 for a value
\* that was stored as a password-reset token.
C37_TokensAreTyped ==
    /\ (last.op = "reset" /\ last.status = 200) =>
          Issued("verification", last.token) \notin issued
    /\ (last.op = "verify" /\ last.status = 200) =>
          Issued("reset", last.token) \notin issued

\* reset_password refuses the verification token that some row still holds
C37_Witness ==
    /\ last.op = "reset"
    /\ Issued("verification", last.token) \in issued
    /\ \E i \in 1..Len(users) :
          users[i].email_verification_token = last.token
    /\ last.status = 400

\* ---------------------------------------------------------------- C38
\* validate_token returned claims on the access-token path
AccessTokenAccepted ==
    /\ last.op = "validate_token"
    /\ last.ret.status = 200
    /\ last.arg.token.kind = "access"

\* C38: the claims returned on the access-token path carry the provider,
\* the subject and the email of the tokeninfo response; the profile fetch
\* replaces none of them.
C38_ProfileOnlyAdds ==
    AccessTokenAccepted =>
        /\ last.ret.claims.provider = "google"
        /\ last.ret.claims.user_id = last.arg.token.sub
        /\ last.ret.claims.email = last.arg.token.email

\* ---------------------------------------------------------------- C39
\* check_abuse_safeguards returned False: the alert was accepted
AlertAccepted ==
    /\ last.op = "receive_alert"
    /\ last.status # 500
    /\ ~last.ret.dropped

\* C39: an alert is accepted only if no alert with the same (source,
\* alert_type, description) was accepted in the 60 seconds before, that
\* is, only if its dedupe key holds no value when it is accepted; this
\* includes alerts whose requests are in flight together.
C39_OneAlertPerWindow ==
    AlertAccepted => ~last.arg.marked

\* ---------------------------------------------------------------- C40
\* an alert that is no duplicate was decided after GLOBAL_MINUTE_LIMIT
\* alerts had been accepted under its throttle key
DecidedAfterLimit ==
    /\ last.op = "receive_alert"
    /\ ~last.arg.is_duplicate
    /\ last.arg.admitted >= GLOBAL_MINUTE_LIMIT

\* C40: under one throttle key, which lives for one minute bucket, at most
\* GLOBAL_MINUTE_LIMIT alerts are accepted, whatever the interleaving of
\* the requests; every further alert is dropped and not saved.
C40_RateCap ==
    /\ \A k \in guard.throttle : k.admitted <= GLOBAL_MINUTE_LIMIT
    /\ DecidedAfterLimit => last.ret.dropped /\ ~last.ret.saved

C40_Witness ==
    /\ DecidedAfterLimit
    /\ last.ret.status = "filtered_or_throttled"
    /\ ThrottleKey(guard.throttle, last.arg.label, guard.clock).admitted
           = GLOBAL_MINUTE_LIMIT

====
